---- MODULE Spec2Model ----
(***************************************************************************)
(* CourseForge SCORM subsystem: the suspend-data codec of the SCORM        *)
(* service (SuspendDataManager) and the in-frame runtime bridge that the   *)
(* service generates for SCORM 1.2 and SCORM 2004 (SCORMAPIWrapper).       *)
(*                                                                         *)
(* Strings are sequences of one-character strings, so that the length of a *)
(* serialized state is the length the code compares with 4096.             *)
(***************************************************************************)
EXTENDS Integers, Sequences, FiniteSets, TLC

VARIABLES
    version,       \* which wrapper was generated into scorm.js: "1.2" or "2004"
    frames,        \* the window hierarchy the package is loaded in
    pc,            \* position of the page: "start", "findAPI", "ready", "unloaded"
    win,           \* findAPI: the local win
    attempts,      \* findAPI: the local attempts
    scormAPI,      \* var scormAPI (NoAPI is null)
    sessionTimer,  \* var sessionTimer (0 is null)
    now,           \* Date.now()
    lms,           \* the host LMS: session opened, session closed, the suspend data it holds
    last,          \* the bridge function that ran last: its name, argument, return value and
                   \* the host calls it made, in order
    cin,           \* codec: the SuspendData handed to SuspendDataManager
    ctext,         \* codec: the string handed to deserialize
    cout,          \* codec: the result of the SuspendDataManager method applied last
    fin,           \* calculators: the arguments handed to ScoreCalculator / the timers
    fout,          \* calculators: what each function returned
    project,       \* build: the project's rows in the database
    disk,          \* build: the server's file system
    build,         \* build: the request being served
    scormConfig,   \* packager: the package config createPackage is called with
    manifest,      \* packager: the text of imsmanifest.xml, as quasis and substitutions
    hookOptions,   \* useUndoRedo: maxHistorySize, and whether structuredClone is defined
    rendered,      \* useUndoRedo: what the hook returned at the last render
    historyRef,    \* useUndoRedo: historyRef.current
    currentIndexRef, \* useUndoRedo: currentIndexRef.current
    hookCall,      \* useUndoRedo: the function called last, and the state it was called in
    requests,      \* server: the generatePackage requests in flight, each at its await
    server         \* server: Date.now(), the exports directory, the published projects

bridgeVars == <<version, frames, pc, win, attempts, scormAPI, sessionTimer, now, lms, last>>
codecVars == <<cin, ctext, cout>>
calcVars == <<fin, fout>>
buildVars == <<project, disk, build>>
packagerVars == <<scormConfig, manifest>>
hookVars == <<hookOptions, rendered, historyRef, currentIndexRef, hookCall>>
serverVars == <<requests, server>>
nonBridgeVars == <<codecVars, calcVars, buildVars, packagerVars, hookVars, serverVars>>
nonCodecVars == <<bridgeVars, calcVars, buildVars, packagerVars, hookVars, serverVars>>
nonCalcVars == <<bridgeVars, codecVars, buildVars, packagerVars, hookVars, serverVars>>
nonBuildVars == <<bridgeVars, codecVars, calcVars, packagerVars, hookVars, serverVars>>
nonPackagerVars == <<bridgeVars, codecVars, calcVars, buildVars, hookVars, serverVars>>
nonHookVars == <<bridgeVars, codecVars, calcVars, buildVars, packagerVars, serverVars>>
nonServerVars == <<bridgeVars, codecVars, calcVars, buildVars, packagerVars, hookVars>>
vars == <<version, frames, pc, win, attempts, scormAPI, sessionTimer, now, lms, last,
          cin, ctext, cout, fin, fout, project, disk, build, scormConfig, manifest,
          hookOptions, rendered, historyRef, currentIndexRef, hookCall, requests, server>>

(***************************************************************************)
(* Characters and JavaScript values                                        *)
(***************************************************************************)
Quote == "\""
Backslash == "\\"
Newline == "\n"
Tab == "\t"
Space == " "
DigitChars == <<"0", "1", "2", "3", "4", "5", "6", "7", "8", "9">>
Digits == {DigitChars[i] : i \in 1..10}
DigitValue(c) == (CHOOSE i \in 1..10 : DigitChars[i] = c) - 1
\* JSON whitespace; String.prototype.trim strips at least these.
WhiteSpace == {Space, Newline, Tab}
\* Characters below U+0020 that the model's alphabet contains.
ControlChars == {Newline, Tab}

\* A JavaScript value: a number, a string, a plain object (its own properties
\* as <<key, value>> pairs in property-enumeration order) or null.
JNum(n) == [t |-> "num", n |-> n, s |-> <<>>, p |-> <<>>]
JStr(s) == [t |-> "str", n |-> 0, s |-> s, p |-> <<>>]
JObj(p) == [t |-> "obj", n |-> 0, s |-> <<>>, p |-> p]
JNull == [t |-> "null", n |-> 0, s |-> <<>>, p |-> <<>>]
JBool(b) == [t |-> "bool", n |-> IF b THEN 1 ELSE 0, s |-> <<>>, p |-> <<>>]
JTrue == JBool(TRUE)
JFalse == JBool(FALSE)

Min(S) == CHOOSE x \in S : \A y \in S : x <= y

RECURSIVE NumVal(_)
NumVal(s) ==
    IF Len(s) = 0 THEN 0
    ELSE 10 * NumVal(SubSeq(s, 1, Len(s) - 1)) + DigitValue(s[Len(s)])

\* An integer-index property key ("0", "7", "12"; not "01", not "q0").
IsArrayIndex(k) ==
    /\ Len(k) >= 1
    /\ Len(k) <= 9
    /\ \A i \in 1..Len(k) : k[i] \in Digits
    /\ (Len(k) = 1 \/ k[1] # "0")

\* CreateDataProperty on a plain object: an existing key keeps its place and
\* takes the new value; a new integer-index key goes among the integer keys in
\* ascending order, any other new key goes last.
DefineProperty(p, k, v) ==
    IF \E i \in 1..Len(p) : p[i][1] = k
    THEN [i \in 1..Len(p) |-> IF p[i][1] = k THEN <<k, v>> ELSE p[i]]
    ELSE IF IsArrayIndex(k)
         THEN LET before == Cardinality({i \in 1..Len(p) :
                                IsArrayIndex(p[i][1]) /\ NumVal(p[i][1]) < NumVal(k)})
              IN SubSeq(p, 1, before) \o <<<<k, v>>>> \o SubSeq(p, before + 1, Len(p))
         ELSE Append(p, <<k, v>>)

(***************************************************************************)
(* JSON.stringify                                                          *)
(***************************************************************************)
RECURSIVE NumberToString(_)
NumberToString(n) ==
    IF n < 0 THEN <<"-">> \o NumberToString(-n)
    ELSE IF n < 10 THEN <<DigitChars[n + 1]>>
    ELSE NumberToString(n \div 10) \o <<DigitChars[(n % 10) + 1]>>

\* Escaping that leaves the backslash as it is.
EscapeCharNoBackslash(c) ==
    CASE c = Quote -> <<Backslash, Quote>>
      [] c = Newline -> <<Backslash, "n">>
      [] c = Tab -> <<Backslash, "t">>
      [] OTHER -> <<c>>

\* QuoteJSONString, one code unit.
EscapeChar(c) ==
    CASE c = Quote -> <<Backslash, Quote>>
      [] c = Backslash -> <<Backslash, Backslash>>
      [] c = Newline -> <<Backslash, "n">>
      [] c = Tab -> <<Backslash, "t">>
      [] OTHER -> <<c>>

\* The escaped body of a string; split in halves (escaping is per code unit).
RECURSIVE EscapeBody(_)
EscapeBody(s) ==
    IF Len(s) = 0 THEN <<>>
    ELSE IF Len(s) = 1 THEN EscapeChar(s[1])
    ELSE LET m == Len(s) \div 2
         IN EscapeBody(SubSeq(s, 1, m)) \o EscapeBody(SubSeq(s, m + 1, Len(s)))

QuoteJSONString(s) == <<Quote>> \o EscapeBody(s) \o <<Quote>>

RECURSIVE JSONStringify(_), JoinProperties(_)
JSONStringify(v) ==
    CASE v.t = "num" -> NumberToString(v.n)
      [] v.t = "str" -> QuoteJSONString(v.s)
      [] v.t = "obj" -> <<"{">> \o JoinProperties(v.p) \o <<"}">>
      [] v.t = "bool" -> IF v.n = 1 THEN <<"t", "r", "u", "e">> ELSE <<"f", "a", "l", "s", "e">>
      [] OTHER -> <<"n", "u", "l", "l">>

\* "key":value of every property, comma-separated, in enumeration order.
JoinProperties(p) ==
    IF Len(p) = 0 THEN <<>>
    ELSE IF Len(p) = 1
         THEN QuoteJSONString(p[1][1]) \o <<":">> \o JSONStringify(p[1][2])
    ELSE LET m == Len(p) \div 2
         IN JoinProperties(SubSeq(p, 1, m)) \o <<",">>
                \o JoinProperties(SubSeq(p, m + 1, Len(p)))

(***************************************************************************)
(* JSON.parse, for the JSON grammar over the model's alphabet: objects,    *)
(* strings with the escapes \" \\ \/ \n \t, non-negative integers and      *)
(* whitespace.  Any other character is a SyntaxError where it stands.      *)
(***************************************************************************)
ParseFail == [ok |-> FALSE, val |-> JNull, pos |-> 0]
ParseOk(v, pos) == [ok |-> TRUE, val |-> v, pos |-> pos]

RECURSIVE SkipWS(_, _)
SkipWS(s, i) == IF i <= Len(s) /\ s[i] \in WhiteSpace THEN SkipWS(s, i + 1) ELSE i

\* Number of consecutive backslashes that end right before position j, from lo on.
RECURSIVE BackslashRun(_, _, _)
BackslashRun(s, lo, j) ==
    IF j - 1 >= lo /\ s[j - 1] = Backslash THEN 1 + BackslashRun(s, lo, j - 1) ELSE 0

\* Position j of a string body that starts at lo is the second half of an escape.
Escaped(s, lo, j) == BackslashRun(s, lo, j) % 2 = 1

\* The character an escape \c stands for.
Unescape(c) ==
    CASE c = "n" -> Newline
      [] c = "t" -> Tab
      [] OTHER -> c
EscapeLetters == {Quote, Backslash, "/", "n", "t"}

\* s[i] is the opening quote of a string.
ParseString(s, i) ==
    LET closers == {j \in (i + 1)..Len(s) : s[j] = Quote /\ ~Escaped(s, i + 1, j)}
    IN IF closers = {} THEN ParseFail
       ELSE LET end == Min(closers)
                wellFormed ==
                    \A k \in (i + 1)..(end - 1) :
                        /\ s[k] \notin ControlChars
                        /\ (s[k] = Backslash /\ ~Escaped(s, i + 1, k))
                               => s[k + 1] \in EscapeLetters
                idx == [k \in 1..(end - i - 1) |-> i + k]
                kept == SelectSeq(idx, LAMBDA k : ~(s[k] = Backslash /\ ~Escaped(s, i + 1, k)))
                chars == [m \in 1..Len(kept) |->
                            IF Escaped(s, i + 1, kept[m]) THEN Unescape(s[kept[m]])
                            ELSE s[kept[m]]]
            IN IF wellFormed THEN ParseOk(JStr(chars), end + 1) ELSE ParseFail

RECURSIVE DigitsEnd(_, _)
DigitsEnd(s, i) == IF i <= Len(s) /\ s[i] \in Digits THEN DigitsEnd(s, i + 1) ELSE i

\* s[i] is a digit.  A leading 0 is a number on its own ("01" is 0 followed by
\* a character no grammar rule accepts).
ParseNumber(s, i) ==
    IF s[i] = "0" THEN ParseOk(JNum(0), i + 1)
    ELSE LET end == DigitsEnd(s, i)
         IN ParseOk(JNum(NumVal(SubSeq(s, i, end - 1))), end)

RECURSIVE ParseValue(_, _), ParseObject(_, _), ParseMembers(_, _, _)
ParseValue(s, i) ==
    LET j == SkipWS(s, i)
    IN IF j > Len(s) THEN ParseFail
       ELSE IF s[j] = "{" THEN ParseObject(s, j)
       ELSE IF s[j] = Quote THEN ParseString(s, j)
       ELSE IF s[j] \in Digits THEN ParseNumber(s, j)
       ELSE ParseFail

\* s[i] is "{".
ParseObject(s, i) ==
    LET j == SkipWS(s, i + 1)
    IN IF j > Len(s) THEN ParseFail
       ELSE IF s[j] = "}" THEN ParseOk(JObj(<<>>), j + 1)
       ELSE ParseMembers(s, j, <<>>)

\* j is where a member "key": value is expected; p holds the members read so far.
ParseMembers(s, j, p) ==
    IF j > Len(s) \/ s[j] # Quote THEN ParseFail
    ELSE LET k == ParseString(s, j)
         IN IF ~k.ok THEN ParseFail
            ELSE LET c == SkipWS(s, k.pos)
                 IN IF c > Len(s) \/ s[c] # ":" THEN ParseFail
                    ELSE LET v == ParseValue(s, c + 1)
                         IN IF ~v.ok THEN ParseFail
                            ELSE LET e == SkipWS(s, v.pos)
                                     np == DefineProperty(p, k.val.s, v.val)
                                 IN IF e > Len(s) THEN ParseFail
                                    ELSE IF s[e] = "}" THEN ParseOk(JObj(np), e + 1)
                                    ELSE IF s[e] = ","
                                         THEN ParseMembers(s, SkipWS(s, e + 1), np)
                                    ELSE ParseFail

\* JSON.parse(text): the value, or a thrown SyntaxError.
JSONParse(s) ==
    LET r == ParseValue(s, 1)
    IN IF r.ok /\ SkipWS(s, r.pos) > Len(s)
       THEN [throws |-> FALSE, val |-> r.val]
       ELSE [throws |-> TRUE, val |-> JNull]

(***************************************************************************)
(* SuspendData and SuspendDataManager                                      *)
(***************************************************************************)
\* interface SuspendData { l; t; q }: the object literal {l, t, q}.
SuspendData(l, t, q) == JObj(<<<<<<"l">>, JNum(l)>>, <<<<"t">>, JNum(t)>>, <<<<"q">>, JObj(q)>>>>)

MAX_LENGTH == 4096

\* The outcome of a method: a returned value, or a thrown error.
Returned(v) == [throws |-> FALSE, val |-> v]
Thrown == [throws |-> TRUE, val |-> JNull]

getSize(data) == Len(JSONStringify(data))

serialize(data) ==
    LET json == JSONStringify(data)
    IN IF Len(json) > MAX_LENGTH THEN Thrown ELSE Returned(JStr(json))

\* validate refusing 4096 characters too (json.length < MAX_LENGTH).
validateStrict(data) == Len(JSONStringify(data)) < MAX_LENGTH

validate(data) == Len(JSONStringify(data)) <= MAX_LENGTH

IsBlank(s) == \A i \in 1..Len(s) : s[i] \in WhiteSpace

\* deserialize without its try/catch: the SyntaxError of JSON.parse gets out.
deserializeUncaught(json) ==
    IF Len(json) = 0 \/ IsBlank(json) THEN Returned(JNull)
    ELSE LET r == JSONParse(json)
         IN IF r.throws THEN Thrown ELSE Returned(r.val)

deserialize(json) ==
    IF Len(json) = 0 \/ IsBlank(json) THEN Returned(JNull)
    ELSE LET r == JSONParse(json)
         IN IF r.throws THEN Returned(JNull) ELSE Returned(r.val)

\* getSuspendData, from the value the host returned on: null for no data and
\* for data JSON.parse rejects.
parseSuspendData(data) ==
    IF Len(data) = 0 THEN Returned(JNull)
    ELSE LET r == JSONParse(data)
         IN IF r.throws THEN Returned(JNull) ELSE Returned(r.val)

(***************************************************************************)
(* Inputs of the codec                                                     *)
(***************************************************************************)
MaxLesson == 14
MaxTextLen == 3
MaxTruncated == 12
EpochSeconds == 1700000000

Pad(n) == [i \in 1..n |-> "a"]
Q0 == <<"q", "0">>
Q1 == <<"q", "1">>

\* Quiz-answer mappings: none, index-keyed single-letter tokens, keys and tokens
\* that need escaping, integer-like keys.
SmallAnswers ==
    { <<>>,
      <<<<Q0, JStr(<<"D">>)>>>>,
      <<<<Q0, JStr(<<"D">>)>>, <<Q1, JStr(<<"A">>)>>>>,
      <<<<<<"a", Quote>>, JStr(<<Backslash, Newline, "b">>)>>>>,
      <<<<<<"2">>, JStr(<<"x", Tab>>)>>, <<<<"1", "0">>, JStr(<<>>)>>, <<Q0, JStr(<<Space>>)>>>> }

\* A mapping with one answer token of n characters.
LongAnswers(n) == <<<<Q0, JStr(Pad(n))>>>>

\* The token length that brings the serialized state to exactly `size` characters.
PadFor(l, t, size) == size - getSize(SuspendData(l, t, LongAnswers(0)))

CodecStates ==
    { SuspendData(l, t, q) : l \in {0, MaxLesson}, t \in {0, EpochSeconds}, q \in SmallAnswers }
    \cup { SuspendData(MaxLesson, EpochSeconds,
                        LongAnswers(PadFor(MaxLesson, EpochSeconds, MAX_LENGTH + d))) :
             d \in {-1, 0, 1} }

TextAlphabet == {"{", "}", Quote, ":", ",", Backslash, "a", "0", "1", Space, "n"}

RECURSIVE TextsOfLen(_)
TextsOfLen(n) ==
    IF n = 0 THEN {<<>>}
    ELSE {Append(s, c) : s \in TextsOfLen(n - 1), c \in TextAlphabet}

\* What a host may hand back: short texts over the alphabet, serialized states
\* cut short, and serialized states with one character changed or appended.
SampleTexts ==
    { JSONStringify(SuspendData(l, EpochSeconds, q)) : l \in {0, MaxLesson}, q \in SmallAnswers }

CodecTexts ==
    UNION {TextsOfLen(n) : n \in 0..MaxTextLen}
    \cup { SubSeq(s, 1, n) : s \in SampleTexts, n \in 0..MaxTruncated }
    \cup { SubSeq(s, 1, Len(s) - n) : s \in SampleTexts, n \in 0..MaxTruncated }
    \cup { <<Space>> \o s \o <<Newline>> : s \in SampleTexts }
    \cup { s \o <<c>> : s \in SampleTexts, c \in TextAlphabet }
    \cup { <<"{", Quote, "a", Quote, ":", Quote, Backslash, c, Quote, "}">> : c \in TextAlphabet }

(***************************************************************************)
(* The generated runtime bridge (scorm.js) and the host LMS it talks to    *)
(***************************************************************************)
\* The call vocabulary and data-model names of the two wrappers.
Vocab(v) ==
    IF v = "1.2"
    THEN [init |-> "LMSInitialize", get |-> "LMSGetValue", set |-> "LMSSetValue",
          commit |-> "LMSCommit", finish |-> "LMSFinish",
          status |-> "cmi.core.lesson_status", notSet |-> "not attempted",
          sessionTime |-> "cmi.core.session_time", suspend |-> "cmi.suspend_data",
          scoreRaw |-> "cmi.core.score.raw", scoreMin |-> "cmi.core.score.min",
          scoreMax |-> "cmi.core.score.max"]
    ELSE [init |-> "Initialize", get |-> "GetValue", set |-> "SetValue",
          commit |-> "Commit", finish |-> "Terminate",
          status |-> "cmi.completion_status", notSet |-> "unknown",
          sessionTime |-> "cmi.session_time", suspend |-> "cmi.suspend_data",
          scoreRaw |-> "cmi.score.raw", scoreMin |-> "cmi.score.min",
          scoreMax |-> "cmi.score.max"]

\* One call on the host API object and what it returned; open and closed say
\* whether, when the call is made, the host's initialize and terminate
\* primitives have already returned "true" (set as the call is made).
Call(fn, key, val, ret) ==
    [fn |-> fn, key |-> key, val |-> val, ret |-> ret, open |-> FALSE, closed |-> FALSE]

\* The host after a call: suspend data it accepted are stored, an accepted
\* initialize or terminate opens or closes the session.
HostAfter(h, c, v) ==
    IF c.ret # "true" THEN h
    ELSE IF c.fn = Vocab(v).init THEN [h EXCEPT !.initialized = TRUE]
    ELSE IF c.fn = Vocab(v).finish THEN [h EXCEPT !.terminated = TRUE]
    ELSE IF c.fn = Vocab(v).set /\ c.key = Vocab(v).suspend THEN [h EXCEPT !.suspend = c.val]
    ELSE h

RECURSIVE HostAfterAll(_, _, _)
HostAfterAll(h, cs, v) ==
    IF Len(cs) = 0 THEN h ELSE HostAfterAll(HostAfter(h, Head(cs), v), Tail(cs), v)

\* The calls cs made one after the other on the host h, each as the host saw it.
Made(h, cs, v) ==
    [i \in 1..Len(cs) |->
        LET before == HostAfterAll(h, SubSeq(cs, 1, i - 1), v)
        IN [cs[i] EXCEPT !.open = before.initialized, !.closed = before.terminated]]

\* The window hierarchy: frame 1 is the window of the package, parent[f] is
\* f.parent (f itself for the top window, NoFrame for none), api is the set of
\* frames that expose the API object of the wrapper's version.
NoFrame == 0
NoAPI == 0
maxAttempts == 500

Chain(n, api) == [parent |-> [f \in 1..n |-> IF f < n THEN f + 1 ELSE f], api |-> api]

\* Hierarchies a package is launched in: the API on the opener's frame two hops
\* up, a top without API, no parent at all, parents in a cycle that never
\* reaches a top, the API one hop beyond the bound.
LaunchFrames ==
    { Chain(3, {3}),
      Chain(2, {}),
      [parent |-> <<NoFrame>>, api |-> {}],
      [parent |-> <<2, 3, 1>>, api |-> {}],
      Chain(maxAttempts + 2, {maxAttempts + 2}) }

\* And: the API on the window itself, the API exactly maxAttempts hops up, a
\* longer cycle entered from a tail.
FrameStructures ==
    LaunchFrames
    \cup { Chain(1, {1}),
           Chain(maxAttempts + 1, {maxAttempts + 1}),
           [parent |-> <<2, 3, 4, 5, 3>>, api |-> {}] }

HasAPI(fs, f) == f \in fs.api
\* win.API (win.API_1484_11): the object, named by the frame that exposes it.
APIOf(fs, f) == IF HasAPI(fs, f) THEN f ELSE NoAPI

\* The condition of findAPI's while loop, with win = f and attempts = k.
\* The loop condition without its attempts bound.
ContinueUnbounded(fs, f, k) ==
    /\ ~HasAPI(fs, f)
    /\ fs.parent[f] # NoFrame
    /\ fs.parent[f] # f

Continue(fs, f, k) ==
    /\ ~HasAPI(fs, f)
    /\ fs.parent[f] # NoFrame
    /\ fs.parent[f] # f
    /\ k < maxAttempts

\* The frame k parent hops above f (NoFrame once a frame has no parent).
RECURSIVE Hop(_, _, _)
Hop(fs, f, k) ==
    IF k = 0 \/ f = NoFrame THEN f
    ELSE IF k = 1 THEN fs.parent[f]
    ELSE Hop(fs, Hop(fs, f, k \div 2), k - (k \div 2))

\* The loop is entered again after m hops from the window.
ContinuesAt(fs, m) ==
    LET f == Hop(fs, 1, m) IN f # NoFrame /\ Continue(fs, f, m)

\* findAPI(window) in the hierarchy fs: the loop leaves at the first hop count
\* at which its condition is false and returns win.API of the frame reached.
findAPI(fs) ==
    LET hops == CHOOSE k \in 0..maxAttempts :
                    ~ContinuesAt(fs, k) /\ \A m \in 0..(k - 1) : ContinuesAt(fs, m)
    IN [hops |-> hops, api |-> APIOf(fs, Hop(fs, 1, hops))]

(***************************************************************************)
(* Session time                                                            *)
(***************************************************************************)
\* pad keeping the last two digits only.
padLastTwo(num) ==
    LET str == NumberToString(num)
    IN IF Len(str) < 2 THEN <<"0">> \o str ELSE SubSeq(str, Len(str) - 1, Len(str))

pad(num) ==
    LET str == NumberToString(num)
    IN IF Len(str) < 2 THEN <<"0">> \o str ELSE str

\* getSessionTime of the wrapper of version v, with sessionTimer = timer (0: not set).
getSessionTime(v, timer, clock) ==
    LET elapsed == (clock - timer) \div 1000
        hours == elapsed \div 3600
        minutes == (elapsed % 3600) \div 60
        seconds == elapsed % 60
    IN IF v = "1.2"
       THEN IF timer = 0 THEN <<"0", "0", ":", "0", "0", ":", "0", "0">>
            ELSE pad(hours) \o <<":">> \o pad(minutes) \o <<":">> \o pad(seconds)
       ELSE IF timer = 0 THEN <<"P", "T", "0", "H", "0", "M", "0", "S">>
            ELSE <<"P", "T">> \o NumberToString(hours) \o <<"H">> \o NumberToString(minutes)
                     \o <<"M">> \o NumberToString(seconds) \o <<"S">>

\* SessionTimer.pad
SessionTimerPad(num) ==
    LET str == NumberToString(num)
    IN IF Len(str) < 2 THEN <<"0">> \o str ELSE str

\* SessionTimer.getSessionTime, with this.startTime = startTime and Date.now() = clock.
SessionTimerGetSessionTime(startTime, clock) ==
    LET elapsed == (clock - startTime) \div 1000
        hours == elapsed \div 3600
        minutes == (elapsed % 3600) \div 60
        seconds == elapsed % 60
    IN SessionTimerPad(hours) \o <<":">> \o SessionTimerPad(minutes) \o <<":">>
           \o SessionTimerPad(seconds)

\* SessionTimer.getSessionTime2004
SessionTimerGetSessionTime2004(startTime, clock) ==
    LET elapsed == (clock - startTime) \div 1000
        hours == elapsed \div 3600
        minutes == (elapsed % 3600) \div 60
        seconds == elapsed % 60
    IN <<"P", "T">> \o NumberToString(hours) \o <<"H">> \o NumberToString(minutes)
           \o <<"M">> \o NumberToString(seconds) \o <<"S">>

(***************************************************************************)
(* ScoreCalculator.  A Record<string, string> is the sequence of its       *)
(* <<key, value>> entries in enumeration order.                            *)
(***************************************************************************)
HasOwn(m, k) == \E i \in 1..Len(m) : m[i][1] = k
\* m[k] of an object that has k
Get(m, k) == m[CHOOSE i \in 1..Len(m) : m[i][1] = k][2]

\* The loop over Object.entries(correctAnswers): correctCount after the entries given.
RECURSIVE CountCorrect(_, _)
CountCorrect(entries, answers) ==
    IF Len(entries) = 0 THEN 0
    ELSE LET questionId == entries[Len(entries)][1]
             correctAnswer == entries[Len(entries)][2]
             rest == CountCorrect(SubSeq(entries, 1, Len(entries) - 1), answers)
         IN IF HasOwn(answers, questionId) /\ Get(answers, questionId) = correctAnswer
            THEN rest + 1
            ELSE rest

\* Math.round((correctCount / totalQuestions) * 100): halves go up.  The double
\* arithmetic is exact to the rounding for fewer than 40 questions.
MathRoundPercent(correctCount, totalQuestions) ==
    (200 * correctCount + totalQuestions) \div (2 * totalQuestions)

\* calculateScore taking a quiz without questions for a perfect one.
calculateScoreEmptyPerfect(answers, correctAnswers) ==
    LET totalQuestions == Len(correctAnswers)
    IN IF totalQuestions = 0 THEN 100
       ELSE MathRoundPercent(CountCorrect(correctAnswers, answers), totalQuestions)

\* calculateScore comparing the entries of the two mappings place by place.
calculateScoreByPosition(answers, correctAnswers) ==
    LET totalQuestions == Len(correctAnswers)
        same == {i \in 1..totalQuestions : i <= Len(answers) /\ answers[i] = correctAnswers[i]}
    IN IF totalQuestions = 0 THEN 0
       ELSE MathRoundPercent(Cardinality(same), totalQuestions)

calculateScore(answers, correctAnswers) ==
    LET totalQuestions == Len(correctAnswers)
    IN IF totalQuestions = 0 THEN 0
       ELSE MathRoundPercent(CountCorrect(correctAnswers, answers), totalQuestions)

\* getCompletionStatus deciding by the score whether there is a quiz or not.
getCompletionStatusByScore(score, passingScore, hasQuiz) ==
    IF score >= passingScore THEN "passed" ELSE "failed"

\* getCompletionStatus failing a score equal to the passing score.
getCompletionStatusStrict(score, passingScore, hasQuiz) ==
    IF ~hasQuiz THEN "completed"
    ELSE IF score > passingScore THEN "passed" ELSE "failed"

getCompletionStatus(score, passingScore, hasQuiz) ==
    IF ~hasQuiz THEN "completed"
    ELSE IF score >= passingScore THEN "passed" ELSE "failed"

\* The wrappers' setCompletionStatus: score >= passingScore ? "passed" : "failed"
statusByScore(score, passingScore) ==
    IF score >= passingScore THEN "passed" ELSE "failed"

(***************************************************************************)
(* Inputs of the bridge                                                    *)
(***************************************************************************)
MaxTicks == 1
\* Date.now() when the page starts: a day after the epoch, within 32-bit integers.
StartMillis == 86400000
MaxTick == 3661000
TickMillis == {MaxTick}

\* What a host primitive may return; the bridge compares with "true".
HostReturns == {"true", "false"}
InitReturns == {"true", "false", "TRUE"}
\* The status the host holds when the package is launched (read once, by
\* initializeSCORM).
HostStatuses == {"", "not attempted", "unknown", "incomplete", "completed", "passed", "failed", "browsed"}
\* The suspend data the host holds at launch: a bookmark, a bookmark cut short.
HostSuspendData ==
    LET bookmark == JSONStringify(SuspendData(2, EpochSeconds, <<<<Q0, JStr(<<"D">>)>>>>))
    IN {bookmark, SubSeq(bookmark, 1, Len(bookmark) - 2)}

\* Bookmarks the content saves: a short one, and ones of exactly MAX_LENGTH
\* and MAX_LENGTH + 1 characters.
BridgeStates ==
    { SuspendData(1, EpochSeconds, <<<<Q0, JStr(<<"D">>)>>>>),
      SuspendData(1, EpochSeconds, LongAnswers(PadFor(1, EpochSeconds, MAX_LENGTH))),
      SuspendData(1, EpochSeconds, LongAnswers(PadFor(1, EpochSeconds, MAX_LENGTH + 1))) }

\* findAPI(window) in each hierarchy.
FoundAPI == [fs \in FrameStructures |-> findAPI(fs).api]

\* JSON.stringify of each bookmark.
BridgeJSON == [data \in BridgeStates |-> JSONStringify(data)]

NoScore == -1
ScoreArgs == {69, 70}
PassingScoreArgs == {70}
StatusArgs == {"completed"}

(***************************************************************************)
(* The bridge's functions                                                  *)
(***************************************************************************)
\* What a bridge function was called with; a parameter not passed is absent.
Args(data, status, score, passingScore) ==
    [data |-> data, status |-> status, score |-> score, passingScore |-> passingScore]
NoArgs == Args(JNull, "", NoScore, NoScore)

\* The messages of the wrappers' console.error calls.
APINotFound(v) == IF v = "1.2" THEN "SCORM API not found" ELSE "SCORM 2004 API not found"
ParseFailed == "Failed to parse suspend data:"
LimitExceeded == "Suspend data exceeds 4096 character limit:"

(***************************************************************************)
(* The wrapper functions of version v, each as what one call does with the *)
(* API handle `handle`, sessionTimer = timer and Date.now() = clock, the   *)
(* host returning the given values.                                        *)
(***************************************************************************)
\* The value returned, the host calls made, the console messages written and
\* sessionTimer after the call.
Effect(ret, cs, log, timer) == [ret |-> ret, cs |-> cs, log |-> log, timer |-> timer]

initializeSCORM(v, handle, timer, clock, result, status, w) ==
    LET V == Vocab(v)
        c1 == Call(V.init, "", "", result)
        c2 == Call(V.get, V.status, "", status)
    IN IF handle = NoAPI THEN Effect(JFalse, <<>>, <<APINotFound(v)>>, timer)
       ELSE IF result = "true"
       THEN IF status = V.notSet \/ status = ""
            THEN Effect(JTrue, <<c1, c2, Call(V.set, V.status, "incomplete", w)>>, <<>>, clock)
            ELSE Effect(JTrue, <<c1, c2>>, <<>>, clock)
       ELSE Effect(JFalse, <<c1>>, <<>>, timer)

\* data: what the host returns for cmi.suspend_data.
getSuspendData(v, handle, timer, data) ==
    IF handle = NoAPI THEN Effect(JNull, <<>>, <<>>, timer)
    ELSE LET caught == Len(data) > 0 /\ JSONParse(data).throws
         IN Effect(parseSuspendData(data).val,
                   <<Call(Vocab(v).get, Vocab(v).suspend, "", data)>>,
                   IF caught THEN <<ParseFailed>> ELSE <<>>, timer)

setSuspendData(v, handle, timer, data, r) ==
    LET json == BridgeJSON[data]
    IN IF handle = NoAPI THEN Effect(JFalse, <<>>, <<>>, timer)
       ELSE IF Len(json) > 4096 THEN Effect(JFalse, <<>>, <<LimitExceeded>>, timer)
       ELSE Effect(JBool(r = "true"), <<Call(Vocab(v).set, Vocab(v).suspend, json, r)>>,
                   <<>>, timer)

\* A bridge function has run: what it was given, what it returned, the host
\* calls it made; the host takes the calls in.
RanLogging(op, arg, ret, cs, log) ==
    /\ last' = [op |-> op, arg |-> arg, ret |-> ret, throws |-> FALSE,
                calls |-> Made(lms, cs, version), log |-> log]
    /\ lms' = HostAfterAll(lms, cs, version)

\* A bridge function that wrote nothing to the console.
Ran(op, arg, ret, cs) == RanLogging(op, arg, ret, cs, <<>>)

\* (score / 100).toFixed(2) for a whole score.
ScaledScore(score) ==
    NumberToString(score \div 100) \o <<".">> \o pad(score % 100)

\* Score writes that leave out all but the raw score.
ScoreWritesRawOnly(v, score, r) ==
    <<Call(Vocab(v).set, Vocab(v).scoreRaw, NumberToString(score), r)>>

\* The host calls of setScore, each returning r.
ScoreWrites(v, score, r) ==
    LET V == Vocab(v)
        cs == <<Call(V.set, V.scoreRaw, NumberToString(score), r),
                Call(V.set, V.scoreMin, <<"0">>, r),
                Call(V.set, V.scoreMax, <<"1", "0", "0">>, r)>>
    IN IF v = "1.2" THEN cs
       ELSE Append(cs, Call(V.set, "cmi.score.scaled", ScaledScore(score), r))

setScore(v, handle, timer, score, r) ==
    IF handle = NoAPI THEN Effect(JFalse, <<>>, <<>>, timer)
    ELSE Effect(JTrue, ScoreWrites(v, score, r), <<>>, timer)

\* The host calls of setCompletionStatus, each returning r.
StatusWrites(v, status, score, passingScore, r) ==
    LET V == Vocab(v)
        byScore == statusByScore(score, passingScore)
    IN IF v = "1.2"
       THEN LET lessonStatus == IF score # NoScore THEN byScore ELSE status
            IN <<Call(V.set, V.status, lessonStatus, r)>>
       ELSE LET completionStatus ==
                    IF status = "passed" \/ status = "failed" THEN "completed"
                    ELSE status
                c1 == Call(V.set, V.status, completionStatus, r)
            IN IF score # NoScore
               THEN <<c1, Call(V.set, "cmi.success_status", byScore, r)>>
               ELSE <<c1>>

setCompletionStatus(v, handle, timer, status, score, passingScore, r) ==
    IF handle = NoAPI THEN Effect(JFalse, <<>>, <<>>, timer)
    ELSE Effect(JTrue, StatusWrites(v, status, score, passingScore, r), <<>>, timer)

commitData(v, handle, timer, r) ==
    IF handle = NoAPI THEN Effect(JFalse, <<>>, <<>>, timer)
    ELSE Effect(JBool(r = "true"), <<Call(Vocab(v).commit, "", "", r)>>, <<>>, timer)

\* A finishSCORM that, in 2004, terminates without a commit.
finishSCORMWithoutCommit2004(v, handle, timer, clock, rs, rc, result) ==
    LET V == Vocab(v)
        written == Call(V.set, V.sessionTime, getSessionTime(v, timer, clock), rs)
        finished == Call(V.finish, "", "", result)
    IN IF handle = NoAPI THEN Effect(JFalse, <<>>, <<>>, timer)
       ELSE Effect(JBool(result = "true"),
                   IF v = "1.2" THEN <<written, Call(V.commit, "", "", rc), finished>>
                   ELSE <<written, finished>>, <<>>, timer)

finishSCORM(v, handle, timer, clock, rs, rc, result) ==
    LET V == Vocab(v)
    IN IF handle = NoAPI THEN Effect(JFalse, <<>>, <<>>, timer)
       ELSE Effect(JBool(result = "true"),
                   <<Call(V.set, V.sessionTime, getSessionTime(v, timer, clock), rs),
                     Call(V.commit, "", "", rc),
                     Call(V.finish, "", "", result)>>, <<>>, timer)

\* The player's quiz submission: the score and the status the evaluator gave
\* are written, then committed, as one handler:
\*   setScore(score); setCompletionStatus(status, score, PASSING_SCORE); commitData();
\* It returns what commitData returned.
submitQuiz(v, handle, timer, score, passingScore, rs, rc) ==
    LET status == statusByScore(score, passingScore)
        written == setScore(v, handle, timer, score, rs)
        marked == setCompletionStatus(v, handle, timer, status, score, passingScore, rs)
        committed == commitData(v, handle, timer, rc)
    IN Effect(committed.ret, written.cs \o marked.cs \o committed.cs, <<>>, timer)

\* The function ran as the event `op`.
Apply(op, arg, e) ==
    /\ RanLogging(op, arg, e.ret, e.cs, e.log)
    /\ sessionTimer' = e.timer

\* The page is up: its scripts run, before and after window "load".
Scripted == pc \in {"start", "ready"}

\* window "load": initializeSCORM().
\* initializeSCORM taking every return but "false" for success.
InitializeSCORMLoose ==
    /\ pc = "start"
    /\ pc' = "ready"
    /\ scormAPI' = FoundAPI[frames]
    /\ LET V == Vocab(version)
       IN IF FoundAPI[frames] = NoAPI
          THEN /\ RanLogging("initializeSCORM", NoArgs, JFalse, <<>>, <<APINotFound(version)>>)
               /\ UNCHANGED sessionTimer
          ELSE \E result \in InitReturns, status \in HostStatuses :
                  LET c1 == Call(V.init, "", "", result)
                      c2 == Call(V.get, V.status, "", status)
                  IN IF result # "false"
                     THEN /\ sessionTimer' = now
                          /\ IF status = V.notSet \/ status = ""
                             THEN \E w \in HostReturns :
                                     Ran("initializeSCORM", NoArgs, JTrue,
                                         <<c1, c2, Call(V.set, V.status, "incomplete", w)>>)
                             ELSE Ran("initializeSCORM", NoArgs, JTrue, <<c1, c2>>)
                     ELSE /\ Ran("initializeSCORM", NoArgs, JFalse, <<c1>>)
                          /\ UNCHANGED sessionTimer
    /\ UNCHANGED <<version, frames, win, attempts, now, nonBridgeVars>>

InitializeSCORM ==
    /\ pc = "start"
    /\ pc' = "ready"
    /\ scormAPI' = FoundAPI[frames]
    /\ \E result \in InitReturns, status \in HostStatuses, w \in HostReturns :
          Apply("initializeSCORM", NoArgs,
                initializeSCORM(version, FoundAPI[frames], sessionTimer, now, result, status, w))
    /\ UNCHANGED <<version, frames, win, attempts, now, nonBridgeVars>>

GetSuspendData ==
    /\ Scripted
    /\ Apply("getSuspendData", NoArgs,
             getSuspendData(version, scormAPI, sessionTimer, lms.suspend))
    /\ UNCHANGED <<version, frames, pc, win, attempts, scormAPI, now, nonBridgeVars>>

\* setSuspendData without its size check.
SetSuspendDataUnchecked(data) ==
    /\ Scripted
    /\ LET json == BridgeJSON[data]
       IN IF scormAPI = NoAPI
          THEN Ran("setSuspendData", Args(data, "", NoScore, NoScore), JFalse, <<>>)
          ELSE \E r \in HostReturns :
                  Ran("setSuspendData", Args(data, "", NoScore, NoScore), JBool(r = "true"),
                      <<Call(Vocab(version).set, Vocab(version).suspend, json, r)>>)
    /\ UNCHANGED <<version, frames, pc, win, attempts, scormAPI, sessionTimer, now, nonBridgeVars>>

\* setSuspendData refusing 4096 characters too (json.length >= 4096).
SetSuspendDataOffByOne(data) ==
    /\ Scripted
    /\ LET json == BridgeJSON[data]
       IN IF scormAPI = NoAPI \/ Len(json) >= 4096
          THEN Ran("setSuspendData", Args(data, "", NoScore, NoScore), JFalse, <<>>)
          ELSE \E r \in HostReturns :
                  Ran("setSuspendData", Args(data, "", NoScore, NoScore), JBool(r = "true"),
                      <<Call(Vocab(version).set, Vocab(version).suspend, json, r)>>)
    /\ UNCHANGED <<version, frames, pc, win, attempts, scormAPI, sessionTimer, now, nonBridgeVars>>

\* setSuspendData dropping the API handle when the save is turned down.
SetSuspendDataAborting(data) ==
    /\ Scripted
    /\ LET json == BridgeJSON[data]
       IN IF scormAPI = NoAPI \/ Len(json) > 4096
          THEN /\ Ran("setSuspendData", Args(data, "", NoScore, NoScore), JFalse, <<>>)
               /\ scormAPI' = NoAPI
          ELSE \E r \in HostReturns :
                  /\ Ran("setSuspendData", Args(data, "", NoScore, NoScore), JBool(r = "true"),
                         <<Call(Vocab(version).set, Vocab(version).suspend, json, r)>>)
                  /\ scormAPI' = IF r = "true" THEN scormAPI ELSE NoAPI
    /\ UNCHANGED <<version, frames, pc, win, attempts, sessionTimer, now, nonBridgeVars>>

SetSuspendData(data) ==
    /\ Scripted
    /\ \E r \in HostReturns :
          Apply("setSuspendData", Args(data, "", NoScore, NoScore),
                setSuspendData(version, scormAPI, sessionTimer, data, r))
    /\ UNCHANGED <<version, frames, pc, win, attempts, scormAPI, now, nonBridgeVars>>

SetScore(score) ==
    /\ Scripted
    /\ \E r \in HostReturns :
          Apply("setScore", Args(JNull, "", score, NoScore),
                setScore(version, scormAPI, sessionTimer, score, r))
    /\ UNCHANGED <<version, frames, pc, win, attempts, scormAPI, now, nonBridgeVars>>

SetCompletionStatus(status, score, passingScore) ==
    /\ Scripted
    /\ \E r \in HostReturns :
          Apply("setCompletionStatus", Args(JNull, status, score, passingScore),
                setCompletionStatus(version, scormAPI, sessionTimer, status, score,
                                    passingScore, r))
    /\ UNCHANGED <<version, frames, pc, win, attempts, scormAPI, now, nonBridgeVars>>

\* A commit that does not look at the API handle.
CommitUnguarded(op) ==
    \E r \in HostReturns :
        Ran(op, NoArgs, JBool(r = "true"), <<Call(Vocab(version).commit, "", "", r)>>)

\* The body of commitData, as run by `op`.
Commit(op) ==
    \E r \in HostReturns :
        LET e == commitData(version, scormAPI, sessionTimer, r)
        IN RanLogging(op, NoArgs, e.ret, e.cs, e.log)

CommitData ==
    /\ Scripted
    /\ Commit("commitData")
    /\ UNCHANGED <<version, frames, pc, win, attempts, scormAPI, sessionTimer, now, nonBridgeVars>>

SubmitQuiz(score, passingScore) ==
    /\ pc = "ready"
    /\ \E rs \in HostReturns, rc \in HostReturns :
          Apply("submitQuiz",
                Args(JNull, statusByScore(score, passingScore), score, passingScore),
                submitQuiz(version, scormAPI, sessionTimer, score, passingScore, rs, rc))
    /\ UNCHANGED <<version, frames, pc, win, attempts, scormAPI, now, nonBridgeVars>>

\* A finishSCORM that writes the session time as it stood when the timer was
\* started, not as the clock stands now.
FinishSCORMCachedTime ==
    /\ Scripted
    /\ LET V == Vocab(version)
       IN IF scormAPI = NoAPI THEN Ran("finishSCORM", NoArgs, JFalse, <<>>)
          ELSE \E rs \in HostReturns, rc \in HostReturns, result \in HostReturns :
                  Ran("finishSCORM", NoArgs, JBool(result = "true"),
                      <<Call(V.set, V.sessionTime, getSessionTime(version, sessionTimer, sessionTimer), rs),
                        Call(V.commit, "", "", rc),
                        Call(V.finish, "", "", result)>>)
    /\ UNCHANGED <<version, frames, pc, win, attempts, scormAPI, sessionTimer, now, nonBridgeVars>>

FinishSCORM ==
    /\ Scripted
    /\ \E rs \in HostReturns, rc \in HostReturns, result \in HostReturns :
          Apply("finishSCORM", NoArgs,
                finishSCORM(version, scormAPI, sessionTimer, now, rs, rc, result))
    /\ UNCHANGED <<version, frames, pc, win, attempts, scormAPI, now, nonBridgeVars>>

\* window "beforeunload": commitData(), and the page is gone.
BeforeUnload ==
    /\ Scripted
    /\ Commit("beforeunload")
    /\ pc' = "unloaded"
    /\ UNCHANGED <<version, frames, win, attempts, scormAPI, sessionTimer, now, nonBridgeVars>>

\* Time passes between two events.
Tick ==
    /\ pc = "ready"
    /\ \E d \in TickMillis :
          /\ now + d <= StartMillis + MaxTicks * MaxTick
          /\ now' = now + d
    /\ UNCHANGED <<version, frames, pc, win, attempts, scormAPI, sessionTimer, lms, last, nonBridgeVars>>

(***************************************************************************)
(* Inputs of the calculators                                               *)
(***************************************************************************)
MaxQuestions == 3
\* A quiz long enough for a score that ends in one half (1 of 8 is 12.5).
TieQuestions == 8

QId(i) == <<"q">> \o NumberToString(i)
Reverse(m) == [i \in 1..Len(m) |-> m[Len(m) + 1 - i]]

KeyTokens == {"A", "a"}
Missing == "(none)"
AnswerTokens == {"A", "a", "A "}

\* Answer keys of n questions, and the answers a learner may hand in for one:
\* per question a token or nothing, and possibly an answer to a question that
\* is not in the key.
KeysOf(n) == { [i \in 1..n |-> <<QId(i), f[i]>>] : f \in [1..n -> KeyTokens] }
AnswersOf(n) ==
    LET given(g) == SelectSeq([i \in 1..n |-> <<QId(i), g[i]>>], LAMBDA e : e[2] # Missing)
        base == { given(g) : g \in [1..n -> AnswerTokens \cup {Missing}] }
    IN base \cup { Append(a, <<<<"x">>, "A">>) : a \in base }

ScoreArguments ==
    UNION { { [answers |-> a, key |-> k] :
                a \in AnswersOf(n) \cup {Reverse(x) : x \in AnswersOf(n)},
                k \in KeysOf(n) \cup {Reverse(x) : x \in KeysOf(n)} } :
            n \in 0..MaxQuestions }
    \cup { [answers |-> [i \in 1..c |-> <<QId(i), "A">>],
            key |-> [i \in 1..TieQuestions |-> <<QId(i), "A">>]] : c \in 0..TieQuestions }

StatusScores == {0, 69, 70, 71, 100}
StatusPassingScores == {0, 70, 100}

MaxHours == 100
ElapsedSeconds ==
    {0, 1, 59, 60, 61, 3599, 3600, 3661, 35999, 36000, 86399, 86400,
     3600 * MaxHours - 1, 3600 * MaxHours, 3600 * MaxHours + 3661}
ElapsedMillis == {0, 999}

CalcMethods == {"calculateScore", "getCompletionStatus", "setCompletionStatus",
                "SessionTimer", "getSessionTime"}
NoCalcArgs ==
    [kind |-> "none", answers |-> <<>>, key |-> <<>>, score |-> 0, passingScore |-> 0,
     hasQuiz |-> FALSE, startTime |-> 0, clock |-> 0]
NoCalcResults ==
    [done |-> {}, score |-> 0, status |-> "", written |-> "",
     server12 |-> <<>>, server2004 |-> <<>>, frame12 |-> <<>>, frame2004 |-> <<>>]
CalcIdle == fin = NoCalcArgs /\ fout = NoCalcResults

(***************************************************************************)
(* SCORMPackageGenerator: the manifest                                     *)
(***************************************************************************)
\* text.replace(/c/g, entity) for a one-character pattern c
RECURSIVE ReplaceAll(_, _, _)
ReplaceAll(text, c, entity) ==
    IF Len(text) = 0 THEN <<>>
    ELSE (IF Head(text) = c THEN entity ELSE <<Head(text)>>)
             \o ReplaceAll(Tail(text), c, entity)

\* The five replacements with the ampersand's last.
escapeXmlAmpersandLast(text) ==
    ReplaceAll(ReplaceAll(ReplaceAll(ReplaceAll(ReplaceAll(text,
        "<", <<"&", "l", "t", ";">>),
        ">", <<"&", "g", "t", ";">>),
        Quote, <<"&", "q", "u", "o", "t", ";">>),
        "'", <<"&", "a", "p", "o", "s", ";">>),
        "&", <<"&", "a", "m", "p", ";">>)

escapeXml(text) ==
    ReplaceAll(ReplaceAll(ReplaceAll(ReplaceAll(ReplaceAll(text,
        "&", <<"&", "a", "m", "p", ";">>),
        "<", <<"&", "l", "t", ";">>),
        ">", <<"&", "g", "t", ";">>),
        Quote, <<"&", "q", "u", "o", "t", ";">>),
        "'", <<"&", "a", "p", "o", "s", ";">>)

\* The percentage itself with two decimals.
ToFixed2OfPercentage(passingScore) == NumberToString(passingScore) \o <<".", "0", "0">>

\* (passingScore / 100).toFixed(2), passingScore an integer from 0 to 100
ToFixed2(passingScore) ==
    NumberToString(passingScore \div 100) \o <<".">>
        \o <<DigitChars[((passingScore % 100) \div 10) + 1], DigitChars[(passingScore % 10) + 1]>>

\* A template literal is its quasis (the literal text, here line by line; the
\* first and the last line of a quasi are the parts of a line around the
\* substitutions) and the substituted values between them.
Quasi(lines) == [kind |-> "quasi", lines |-> lines, chars |-> <<>>]
Subst(chars) == [kind |-> "subst", lines |-> <<>>, chars |-> chars]

generateManifestSCORM12(config) ==
    <<
       Quasi(<<"<?xml version=\"1.0\" encoding=\"UTF-8\"?>",
               "<manifest identifier=\"com.courseforge.">>),
       Subst(NumberToString(now)),
       Quasi(<<"\" version=\"1.0\"",
               "          xmlns=\"http://www.imsproject.org/xsd/imscp_rootv1p1p2\"",
               "          xmlns:adlcp=\"http://www.adlnet.org/xsd/adlcp_rootv1p2\"",
               "          xmlns:xsi=\"http://www.w3.org/2001/XMLSchema-instance\"",
               "          xsi:schemaLocation=\"http://www.imsproject.org/xsd/imscp_rootv1p1p2 imscp_rootv1p1p2.xsd",
               "                              http://www.imsglobal.org/xsd/imsmd_rootv1p2p1 imsmd_rootv1p2p1.xsd",
               "                              http://www.adlnet.org/xsd/adlcp_rootv1p2 adlcp_rootv1p2.xsd\">",
               "  ",
               "  <metadata>",
               "    <schema>ADL SCORM</schema>",
               "    <schemaversion>1.2</schemaversion>",
               "  </metadata>",
               "  ",
               "  <organizations default=\"ORG-1\">",
               "    <organization identifier=\"ORG-1\">",
               "      <title>">>),
       Subst(escapeXml(config.courseTitle)),
       Quasi(<<"</title>",
               "      <item identifier=\"ITEM-1\" identifierref=\"RES-1\">",
               "        <title>">>),
       Subst(escapeXml(config.courseTitle)),
       Quasi(<<"</title>",
               "        <adlcp:masteryscore>">>),
       Subst(NumberToString(config.masteryScore)),
       Quasi(<<"</adlcp:masteryscore>",
               "      </item>",
               "    </organization>",
               "  </organizations>",
               "  ",
               "  <resources>",
               "    <resource identifier=\"RES-1\" type=\"webcontent\" adlcp:scormtype=\"sco\" href=\"index.html\">",
               "      <file href=\"index.html\"/>",
               "      <file href=\"scorm.js\"/>",
               "    </resource>",
               "  </resources>",
               "  ",
               "</manifest>">>)
    >>

generateManifestSCORM2004(config) ==
    <<
       Quasi(<<"<?xml version=\"1.0\" encoding=\"UTF-8\"?>",
               "<manifest identifier=\"com.courseforge.">>),
       Subst(NumberToString(now)),
       Quasi(<<"\" version=\"1.0\"",
               "          xmlns=\"http://www.imsglobal.org/xsd/imscp_v1p1\"",
               "          xmlns:adlcp=\"http://www.adlnet.org/xsd/adlcp_v1p3\"",
               "          xmlns:adlseq=\"http://www.adlnet.org/xsd/adlseq_v1p3\"",
               "          xmlns:adlnav=\"http://www.adlnet.org/xsd/adlnav_v1p3\"",
               "          xmlns:imsss=\"http://www.imsglobal.org/xsd/imsss\"",
               "          xmlns:xsi=\"http://www.w3.org/2001/XMLSchema-instance\"",
               "          xsi:schemaLocation=\"http://www.imsglobal.org/xsd/imscp_v1p1 imscp_v1p1.xsd",
               "                              http://www.adlnet.org/xsd/adlcp_v1p3 adlcp_v1p3.xsd",
               "                              http://www.adlnet.org/xsd/adlseq_v1p3 adlseq_v1p3.xsd",
               "                              http://www.adlnet.org/xsd/adlnav_v1p3 adlnav_v1p3.xsd",
               "                              http://www.imsglobal.org/xsd/imsss imsss_v1p0.xsd\">",
               "  ",
               "  <metadata>",
               "    <schema>ADL SCORM</schema>",
               "    <schemaversion>2004 4th Edition</schemaversion>",
               "  </metadata>",
               "  ",
               "  <organizations default=\"ORG-1\">",
               "    <organization identifier=\"ORG-1\">",
               "      <title>">>),
       Subst(escapeXml(config.courseTitle)),
       Quasi(<<"</title>",
               "      <item identifier=\"ITEM-1\" identifierref=\"RES-1\">",
               "        <title>">>),
       Subst(escapeXml(config.courseTitle)),
       Quasi(<<"</title>",
               "        <imsss:sequencing>",
               "          <imsss:objectives>",
               "            <imsss:primaryObjective objectiveID=\"PRIMARY-OBJ\" satisfiedByMeasure=\"true\">",
               "              <imsss:minNormalizedMeasure>">>),
       Subst(ToFixed2(config.passingScore)),
       Quasi(<<"</imsss:minNormalizedMeasure>",
               "            </imsss:primaryObjective>",
               "          </imsss:objectives>",
               "        </imsss:sequencing>",
               "      </item>",
               "    </organization>",
               "  </organizations>",
               "  ",
               "  <resources>",
               "    <resource identifier=\"RES-1\" type=\"webcontent\" adlcp:scormType=\"sco\" href=\"index.html\">",
               "      <file href=\"index.html\"/>",
               "      <file href=\"scorm.js\"/>",
               "    </resource>",
               "  </resources>",
               "  ",
               "</manifest>">>)
    >>

\* createPackage: the text of imsmanifest.xml
ManifestOf(config) ==
    IF config.version = "1.2" THEN generateManifestSCORM12(config)
    ELSE generateManifestSCORM2004(config)

\* Package configs: titles over the reserved characters, a letter and a
\* semicolon; a description with markup in it or none.
MaxTitleLen == 3
TitleAlphabet == {"&", "<", ">", Quote, "'", "a", ";"}
RECURSIVE TitlesOfLen(_)
TitlesOfLen(n) ==
    IF n = 0 THEN {<<>>}
    ELSE {Append(t, c) : t \in TitlesOfLen(n - 1), c \in TitleAlphabet}
Titles == UNION {TitlesOfLen(n) : n \in 0..MaxTitleLen}
Descriptions == {<<>>, <<"<", "a", ">", "&">>}
\* Every title with a few thresholds, and every threshold with one title.
Configs ==
    [version : {"1.2", "2004"}, courseTitle : Titles, courseDescription : Descriptions,
     passingScore : StatusPassingScores, masteryScore : {80}]
    \cup [version : {"1.2", "2004"}, courseTitle : {<<"a">>}, courseDescription : {<<>>},
          passingScore : 0..100, masteryScore : {0, 80, 100}]
    \cup [version : {"1.2", "2004"}, courseTitle : {<<"a">>}, courseDescription : {<<>>},
          passingScore : {70}, masteryScore : 0..100]
NoConfig == [version |-> "1.2", courseTitle |-> <<>>, courseDescription |-> <<>>,
             passingScore |-> 0, masteryScore |-> 0]
PackagerIdle ==
    /\ scormConfig = NoConfig
    /\ manifest = <<>>

\* No hook is mounted.
NoCall == [op |-> "none", by |-> "none", acted |-> FALSE, arg |-> JNull, from |-> JNull,
           prevOp |-> "none", prevBy |-> "none", prevActed |-> FALSE, prevFrom |-> JNull]
HookIdle ==
    /\ hookOptions = [maxHistorySize |-> 0, structuredClone |-> FALSE, kind |-> "none"]
    /\ rendered = [state |-> JNull, canUndo |-> FALSE, canRedo |-> FALSE]
    /\ historyRef = <<>>
    /\ currentIndexRef = 0
    /\ hookCall = NoCall

\* No request is in flight.
MaxRequests == 2
Requests == 1..MaxRequests
NoRequest == [pc |-> "idle", projectId |-> 0, version |-> "", filename |-> <<>>,
              returned |-> <<>>]
ServerIdle ==
    /\ requests = [r \in Requests |-> NoRequest]
    /\ server = [now |-> 0, exportsDir |-> FALSE, exports |-> {}, published |-> {}]

(***************************************************************************)
(* The package build: the scorm router's generatePackage and               *)
(* validateSuspendData                                                     *)
(***************************************************************************)
\* quiz.reduce((acc, q, idx) => { acc[`q${idx}`] = 'D'; return acc; }, {}):
\* the keys q0, q1, ... are new and no integer index, so each goes last.
WorstCaseAnswers(n) == [i \in 1..n |-> <<QId(i - 1), JStr(<<"D">>)>>]

\* testSuspendData of a project with so many lessons and quiz questions, at t.
testSuspendData(lessonsCount, quizCount, t) ==
    SuspendData(lessonsCount - 1, t, WorstCaseAnswers(quizCount))

\* The Error generatePackage throws for a worst case of `size` characters.
OversizeMessage(size) ==
    <<"S", "u", "s", "p", "e", "n", "d", " ", "d", "a", "t", "a", " ", "e", "x", "c",
      "e", "e", "d", "s", " ", "S", "C", "O", "R", "M", " ", "1", ".", "2", " ", "l",
      "i", "m", "i", "t", ".", " ", "C", "u", "r", "r", "e", "n", "t", " ", "s", "i",
      "z", "e", ":", " ">>
        \o NumberToString(size) \o
    <<" ", "c", "h", "a", "r", "a", "c", "t", "e", "r", "s", ".", " ", "C", "o", "n",
      "s", "i", "d", "e", "r", " ", "r", "e", "d", "u", "c", "i", "n", "g", " ", "q",
      "u", "i", "z", " ", "q", "u", "e", "s", "t", "i", "o", "n", "s", ".">>

\* The error of a file that cannot be read, and of one that cannot be written.
ReadError == <<"E", "N", "O", "E", "N", "T">>
WriteError == <<"E", "A", "C", "C", "E", "S">>

ProjectNotFound ==
    <<"P", "r", "o", "j", "e", "c", "t", " ", "n", "o", "t", " ", "f", "o", "u", "n",
      "d">>

\* x occurs in s
Contains(s, x) ==
    \E i \in 0..(Len(s) - Len(x)) : SubSeq(s, i + 1, i + Len(x)) = x

\* Math.round((size / 4096) * 100)
utilizationPercentage(size) == (200 * size + 4096) \div (2 * 4096)

\* What validateSuspendData returns with isValid true for the states that do
\* not fit.
validateSuspendDataInverted(lessonsCount, quizCount, t) ==
    LET data == testSuspendData(lessonsCount, quizCount, t)
        size == getSize(data)
    IN [size |-> size, limit |-> 4096, isValid |-> ~validate(data),
        utilizationPercentage |-> utilizationPercentage(size),
        lessonsCount |-> lessonsCount, quizQuestionsCount |-> quizCount]

\* What validateSuspendData returns for a project with these rows.
validateSuspendData(lessonsCount, quizCount, t) ==
    LET data == testSuspendData(lessonsCount, quizCount, t)
        size == getSize(data)
        isValid == validate(data)
    IN [size |-> size, limit |-> 4096, isValid |-> isValid,
        utilizationPercentage |-> utilizationPercentage(size),
        lessonsCount |-> lessonsCount, quizQuestionsCount |-> quizCount]

\* Projects: no lesson, one, fifteen and sixteen lessons; no quiz, five
\* questions, the most questions that fit and one more, five hundred.
LessonCounts == {0, 1, 15, 16}
QuizCounts == {0, 5, 379, 380, 500}
ProjectStatuses == {"draft", "processing", "ready", "published"}

\* The seconds at which a worst case is built: Math.floor(Date.now() / 1000)
\* of two calls that are SecondsApart apart.
SecondsApart == 299999999
BuildSeconds == {EpochSeconds, EpochSeconds + SecondsApart}

\* The pre-flight result for each project of the model, at each time.
PreFlight ==
    [l \in LessonCounts, q \in QuizCounts, t \in BuildSeconds |->
        validateSuspendData(l, q, t)]

\* A check that counts one lesson more than the project has.
checkWorstCaseNextLesson(lessonsCount, quizCount, t) ==
    LET data == testSuspendData(lessonsCount + 1, quizCount, t)
    IN [valid |-> validate(data), size |-> getSize(data)]

\* generatePackage's check of its own testSuspendData, and the two sizes it
\* reads from it with SuspendDataManager.getSize (one for the Error, one for
\* the response).
checkWorstCase(lessonsCount, quizCount, t) ==
    LET data == testSuspendData(lessonsCount, quizCount, t)
    IN [valid |-> validate(data), size |-> getSize(data)]

\* The pre-export check for each project of the model, at each time.
PreExport ==
    [l \in LessonCounts, q \in QuizCounts, t \in BuildSeconds |-> checkWorstCase(l, q, t)]

NoResult == [size |-> 0, limit |-> 0, isValid |-> FALSE, utilizationPercentage |-> 0,
             lessonsCount |-> 0, quizQuestionsCount |-> 0]
NoBuild == [pc |-> "idle", procedure |-> "none", error |-> <<>>, result |-> NoResult,
            lessons |-> 0, quiz |-> 0, seconds |-> 0, templateRead |-> FALSE,
            statusBefore |-> "", archivesBefore |-> 0]
BuildIdle ==
    /\ project = [exists |-> FALSE, status |-> "", lessons |-> 0, quiz |-> 0]
    /\ disk = [template |-> FALSE, exports |-> FALSE, archives |-> 0]
    /\ build = NoBuild

(***************************************************************************)
(* The bridge in a launched package                                        *)
(***************************************************************************)
NotRun == [done |-> FALSE, throws |-> FALSE, val |-> JNull]
CodecMethods == {"serialize", "deserialize", "validate", "getSize", "getSuspendData"}
CodecIdle == cin = JNull /\ ctext = <<>> /\ cout = [m \in CodecMethods |-> NotRun]
WalkIdle == win = NoFrame /\ attempts = 0

Init ==
    /\ version \in {"1.2", "2004"}
    /\ frames \in LaunchFrames
    /\ pc = "start"
    /\ WalkIdle
    /\ scormAPI = NoAPI
    /\ sessionTimer = 0
    /\ now = StartMillis
    /\ lms \in [initialized : {FALSE}, terminated : {FALSE}, suspend : HostSuspendData]
    /\ last = [op |-> "none", arg |-> NoArgs, ret |-> JNull, throws |-> FALSE, calls |-> <<>>,
               log |-> <<>>]
    /\ CodecIdle
    /\ CalcIdle
    /\ BuildIdle
    /\ PackagerIdle
    /\ HookIdle
    /\ ServerIdle

Next ==
    \/ InitializeSCORM
    \/ GetSuspendData
    \/ \E data \in BridgeStates : SetSuspendData(data)
    \/ \E score \in ScoreArgs : SetScore(score)
    \/ \E status \in StatusArgs, score \in ScoreArgs \cup {NoScore}, passingScore \in PassingScoreArgs :
          SetCompletionStatus(status, score, passingScore)
    \/ CommitData
    \/ \E score \in ScoreArgs, passingScore \in PassingScoreArgs : SubmitQuiz(score, passingScore)
    \/ FinishSCORM
    \/ BeforeUnload
    \/ Tick

Spec == Init /\ [][Next]_vars

(***************************************************************************)
(* findAPI, one turn of its loop at a time                                 *)
(***************************************************************************)
FindAPIContinue == Continue(frames, win, attempts)

FindAPIStep ==
    /\ pc = "findAPI"
    /\ FindAPIContinue
    /\ attempts' = attempts + 1
    /\ win' = frames.parent[win]
    /\ UNCHANGED <<version, frames, pc, scormAPI, sessionTimer, now, lms, last, nonBridgeVars>>

\* return win.API
FindAPIReturn ==
    /\ pc = "findAPI"
    /\ ~FindAPIContinue
    /\ pc' = "returned"
    /\ scormAPI' = APIOf(frames, win)
    /\ UNCHANGED <<version, frames, win, attempts, sessionTimer, now, lms, last, nonBridgeVars>>

FindAPIInit ==
    /\ version \in {"1.2", "2004"}
    /\ frames \in FrameStructures
    /\ pc = "findAPI"
    /\ win = 1
    /\ attempts = 0
    /\ scormAPI = NoAPI
    /\ sessionTimer = 0
    /\ now = StartMillis
    /\ lms = [initialized |-> FALSE, terminated |-> FALSE, suspend |-> <<>>]
    /\ last = [op |-> "none", arg |-> NoArgs, ret |-> JNull, throws |-> FALSE, calls |-> <<>>,
               log |-> <<>>]
    /\ CodecIdle
    /\ CalcIdle
    /\ BuildIdle
    /\ PackagerIdle
    /\ HookIdle
    /\ ServerIdle

FindAPINext == FindAPIStep \/ FindAPIReturn

\* The loop runs to its end once started: nothing else runs in the frame meanwhile.
SpecFindAPI == FindAPIInit /\ [][FindAPINext]_vars /\ WF_vars(FindAPINext)

\* The table used by initializeSCORM is what the loop returns.
FindAPIAgrees ==
    pc = "returned" => scormAPI = FoundAPI[frames] /\ attempts = findAPI(frames).hops

(***************************************************************************)
(* SuspendDataManager applied to one input                                 *)
(***************************************************************************)
Outcome(r) == [done |-> TRUE, throws |-> r.throws, val |-> r.val]

\* serialize(cin); the string it returns is what is stored and read back.
Serialize ==
    /\ cin # JNull
    /\ LET r == serialize(cin)
       IN /\ cout' = [cout EXCEPT !["serialize"] = Outcome(r),
                                  !["deserialize"] = NotRun,
                                  !["getSuspendData"] = NotRun]
          /\ ctext' = IF r.throws THEN ctext ELSE r.val.s
    /\ UNCHANGED <<cin, nonCodecVars>>

Validate ==
    /\ cin # JNull
    /\ cout' = [cout EXCEPT !["validate"] = Outcome(Returned(validate(cin)))]
    /\ UNCHANGED <<cin, ctext, nonCodecVars>>

GetSize ==
    /\ cin # JNull
    /\ cout' = [cout EXCEPT !["getSize"] = Outcome(Returned(getSize(cin)))]
    /\ UNCHANGED <<cin, ctext, nonCodecVars>>

Deserialize ==
    /\ cout' = [cout EXCEPT !["deserialize"] = Outcome(deserialize(ctext))]
    /\ UNCHANGED <<cin, ctext, nonCodecVars>>

\* getSuspendData of the bridge on a host that holds ctext.
ReadSuspendData ==
    /\ cout' = [cout EXCEPT !["getSuspendData"] = Outcome(parseSuspendData(ctext))]
    /\ UNCHANGED <<cin, ctext, nonCodecVars>>

CodecInit ==
    /\ \/ cin \in CodecStates /\ ctext = <<>>
       \/ cin = JNull /\ ctext \in CodecTexts
    /\ cout = [m \in CodecMethods |-> NotRun]
    /\ version = "1.2"
    /\ frames = Chain(1, {1})
    /\ pc = "codec"
    /\ WalkIdle
    /\ scormAPI = NoAPI
    /\ sessionTimer = 0
    /\ now = StartMillis
    /\ lms = [initialized |-> FALSE, terminated |-> FALSE, suspend |-> <<>>]
    /\ last = [op |-> "none", arg |-> NoArgs, ret |-> JNull, throws |-> FALSE, calls |-> <<>>,
               log |-> <<>>]
    /\ CalcIdle
    /\ BuildIdle
    /\ PackagerIdle
    /\ HookIdle
    /\ ServerIdle

CodecNext == Serialize \/ Validate \/ GetSize \/ Deserialize \/ ReadSuspendData

SpecCodec == CodecInit /\ [][CodecNext]_vars

(***************************************************************************)
(* ScoreCalculator, SessionTimer and the wrappers' calculations applied    *)
(* to one set of arguments                                                 *)
(***************************************************************************)
Did(m) == fout.done \cup {m}

CalculateScore ==
    /\ fin.kind = "score"
    /\ fout' = [fout EXCEPT !.done = Did("calculateScore"),
                            !.score = calculateScore(fin.answers, fin.key)]
    /\ UNCHANGED <<fin, nonCalcVars>>

GetCompletionStatus ==
    /\ fin.kind = "status"
    /\ fout' = [fout EXCEPT !.done = Did("getCompletionStatus"),
                            !.status = getCompletionStatus(fin.score, fin.passingScore,
                                                           fin.hasQuiz)]
    /\ UNCHANGED <<fin, nonCalcVars>>

\* What setCompletionStatus of a wrapper writes for a score: lesson_status
\* (1.2), success_status (2004).
WrittenStatus ==
    /\ fin.kind = "status"
    /\ fout' = [fout EXCEPT !.done = Did("setCompletionStatus"),
                            !.written = statusByScore(fin.score, fin.passingScore)]
    /\ UNCHANGED <<fin, nonCalcVars>>

\* new SessionTimer() at fin.startTime, read at fin.clock.
ReadSessionTimer ==
    /\ fin.kind = "time"
    /\ fout' = [fout EXCEPT !.done = Did("SessionTimer"),
                            !.server12 = SessionTimerGetSessionTime(fin.startTime, fin.clock),
                            !.server2004 = SessionTimerGetSessionTime2004(fin.startTime, fin.clock)]
    /\ UNCHANGED <<fin, nonCalcVars>>

\* getSessionTime of each wrapper with sessionTimer = fin.startTime.
GetSessionTime ==
    /\ fin.kind = "time"
    /\ fout' = [fout EXCEPT !.done = Did("getSessionTime"),
                            !.frame12 = getSessionTime("1.2", fin.startTime, fin.clock),
                            !.frame2004 = getSessionTime("2004", fin.startTime, fin.clock)]
    /\ UNCHANGED <<fin, nonCalcVars>>

CalcInit ==
    /\ \/ \E a \in ScoreArguments :
             fin = [NoCalcArgs EXCEPT !.kind = "score", !.answers = a.answers, !.key = a.key]
       \/ \E sc \in StatusScores, ps \in StatusPassingScores, hq \in BOOLEAN :
             fin = [NoCalcArgs EXCEPT !.kind = "status", !.score = sc, !.passingScore = ps,
                                      !.hasQuiz = hq]
       \/ \E e \in ElapsedSeconds, ms \in ElapsedMillis :
             fin = [NoCalcArgs EXCEPT !.kind = "time", !.startTime = StartMillis,
                                      !.clock = StartMillis + 1000 * e + ms]
    /\ fout = NoCalcResults
    /\ CodecIdle
    /\ BuildIdle
    /\ PackagerIdle
    /\ HookIdle
    /\ ServerIdle
    /\ version = "1.2"
    /\ frames = Chain(1, {1})
    /\ pc = "calc"
    /\ WalkIdle
    /\ scormAPI = NoAPI
    /\ sessionTimer = 0
    /\ now = StartMillis
    /\ lms = [initialized |-> FALSE, terminated |-> FALSE, suspend |-> <<>>]
    /\ last = [op |-> "none", arg |-> NoArgs, ret |-> JNull, throws |-> FALSE, calls |-> <<>>,
               log |-> <<>>]

CalcNext ==
    \/ CalculateScore
    \/ GetCompletionStatus
    \/ WrittenStatus
    \/ ReadSessionTimer
    \/ GetSessionTime

SpecCalc == CalcInit /\ [][CalcNext]_vars

(***************************************************************************)
(* The scorm router serving one request at a time.  generatePackage goes   *)
(* from one await to the next; validateSuspendData only reads.             *)
(***************************************************************************)
MaxArchives == 2

\* The rows a select finds: none for a project that does not exist.
LessonRows == IF project.exists THEN project.lessons ELSE 0
QuizRows == IF project.exists THEN project.quiz ELSE 0

Fail(message) == build' = [build EXCEPT !.pc = "failed", !.error = message]

\* generatePackage is called: the four selects.
GeneratePackage ==
    /\ build.pc = "idle"
    /\ disk.archives < MaxArchives
    /\ LET called == [NoBuild EXCEPT !.procedure = "generatePackage",
                                     !.statusBefore = project.status,
                                     !.archivesBefore = disk.archives]
       IN IF ~project.exists
          THEN build' = [called EXCEPT !.pc = "failed", !.error = ProjectNotFound]
          ELSE build' = [called EXCEPT !.pc = "validate", !.lessons = LessonRows,
                                       !.quiz = QuizRows]
    /\ UNCHANGED <<project, disk, nonBuildVars>>

\* A check of the worst case that lets every project through.
CheckWorstCaseSkipped ==
    /\ build.pc = "validate"
    /\ \E t \in BuildSeconds : build' = [build EXCEPT !.pc = "template", !.seconds = t]
    /\ UNCHANGED <<project, disk, nonBuildVars>>

\* if (!SuspendDataManager.validate(testSuspendData)) throw ...
CheckWorstCase ==
    /\ build.pc = "validate"
    /\ \E t \in BuildSeconds :
          LET worst == PreExport[build.lessons, build.quiz, t]
          IN IF ~worst.valid
             THEN Fail(OversizeMessage(worst.size))
             ELSE build' = [build EXCEPT !.pc = "template", !.seconds = t]
    /\ UNCHANGED <<project, disk, nonBuildVars>>

\* await fs.readFile(templatePath), then the placeholders and the config
LoadTemplate ==
    /\ build.pc = "template"
    /\ IF disk.template
       THEN build' = [build EXCEPT !.pc = "mkdir", !.templateRead = TRUE]
       ELSE Fail(ReadError)
    /\ UNCHANGED <<project, disk, nonBuildVars>>

\* await fs.mkdir(outputDir, { recursive: true })
MakeOutputDir ==
    /\ build.pc = "mkdir"
    /\ disk' = [disk EXCEPT !.exports = TRUE]
    /\ build' = [build EXCEPT !.pc = "package"]
    /\ UNCHANGED <<project, nonBuildVars>>

\* A createPackage that goes on when the archive could not be written.
CreatePackageSwallowingErrors ==
    /\ build.pc = "package"
    /\ \E written \in BOOLEAN :
          /\ disk' = IF written THEN [disk EXCEPT !.archives = @ + 1] ELSE disk
          /\ build' = [build EXCEPT !.pc = "publish"]
    /\ UNCHANGED <<project, nonBuildVars>>

\* await SCORMPackageGenerator.createPackage(...): the archive is written, or
\* zip.writeZip throws the file system's error and the promise is rejected.
CreatePackage ==
    /\ build.pc = "package"
    /\ \E written \in BOOLEAN :
          IF written
          THEN /\ disk' = [disk EXCEPT !.archives = @ + 1]
               /\ build' = [build EXCEPT !.pc = "publish"]
          ELSE /\ Fail(WriteError)
               /\ UNCHANGED disk
    /\ UNCHANGED <<project, nonBuildVars>>

\* await ctx.db.update(projects).set({ status: 'published' }), and the return
UpdateStatus ==
    /\ build.pc = "publish"
    /\ project' = [project EXCEPT !.status = "published"]
    /\ build' = [build EXCEPT !.pc = "done",
                              !.result = [NoResult EXCEPT
                                  !.size = PreExport[build.lessons, build.quiz,
                                                    build.seconds].size,
                                  !.limit = 4096]]
    /\ UNCHANGED <<disk, nonBuildVars>>

\* The validateSuspendData query.
ValidateSuspendData ==
    /\ build.pc = "idle"
    /\ \E t \in BuildSeconds :
          build' = [NoBuild EXCEPT !.pc = "done", !.procedure = "validateSuspendData",
                                   !.lessons = LessonRows, !.quiz = QuizRows,
                                   !.seconds = t,
                                   !.statusBefore = project.status,
                                   !.archivesBefore = disk.archives,
                                   !.result = PreFlight[LessonRows, QuizRows, t]]
    /\ UNCHANGED <<project, disk, nonBuildVars>>

\* The response is sent; the server takes the next request.
Respond ==
    /\ build.pc \in {"done", "failed"}
    /\ build' = NoBuild
    /\ UNCHANGED <<project, disk, nonBuildVars>>

BuildInit ==
    /\ \/ project = [exists |-> FALSE, status |-> "", lessons |-> 0, quiz |-> 0]
       \/ \E st \in ProjectStatuses, l \in LessonCounts, q \in QuizCounts :
             project = [exists |-> TRUE, status |-> st, lessons |-> l, quiz |-> q]
    /\ \E t \in BOOLEAN : disk = [template |-> t, exports |-> FALSE, archives |-> 0]
    /\ build = NoBuild
    /\ CodecIdle
    /\ CalcIdle
    /\ PackagerIdle
    /\ HookIdle
    /\ ServerIdle
    /\ version = "1.2"
    /\ frames = Chain(1, {1})
    /\ pc = "build"
    /\ WalkIdle
    /\ scormAPI = NoAPI
    /\ sessionTimer = 0
    /\ now = StartMillis
    /\ lms = [initialized |-> FALSE, terminated |-> FALSE, suspend |-> <<>>]
    /\ last = [op |-> "none", arg |-> NoArgs, ret |-> JNull, throws |-> FALSE, calls |-> <<>>,
               log |-> <<>>]

BuildNext ==
    \/ GeneratePackage
    \/ CheckWorstCase
    \/ LoadTemplate
    \/ MakeOutputDir
    \/ CreatePackage
    \/ UpdateStatus
    \/ ValidateSuspendData
    \/ Respond

SpecBuild == BuildInit /\ [][BuildNext]_vars

(***************************************************************************)
(* createPackage on a package config: the manifest it adds to the archive. *)
(***************************************************************************)
\* .replace(/\{\{PASSING_SCORE\}\}/g, input.passingScore.toString()): the text
\* that stands for the placeholder in the player of a build whose scormConfig
\* has this passingScore (scormConfig.passingScore is input.passingScore).
PassingScorePlaceholder(passingScore) == NumberToString(passingScore)

CreateManifest ==
    /\ manifest = <<>>
    /\ manifest' = ManifestOf(scormConfig)
    /\ UNCHANGED <<scormConfig, nonPackagerVars>>

PackagerInit ==
    /\ scormConfig \in Configs
    /\ manifest = <<>>
    /\ CodecIdle
    /\ CalcIdle
    /\ BuildIdle
    /\ HookIdle
    /\ ServerIdle
    /\ version = scormConfig.version
    /\ frames = Chain(1, {1})
    /\ pc = "package"
    /\ WalkIdle
    /\ scormAPI = NoAPI
    /\ sessionTimer = 0
    /\ now = StartMillis
    /\ lms = [initialized |-> FALSE, terminated |-> FALSE, suspend |-> <<>>]
    /\ last = [op |-> "none", arg |-> NoArgs, ret |-> JNull, throws |-> FALSE, calls |-> <<>>,
               log |-> <<>>]

PackagerNext == CreateManifest

SpecPackager == PackagerInit /\ [][PackagerNext]_vars

(***************************************************************************)
(* useUndoRedo.  A state is a JSON value; an array is the object of its     *)
(* index properties.  Every call is an event of its own, and React renders  *)
(* after an event that set the state.                                       *)
(***************************************************************************)
\* The object with property k set to v.
With(obj, k, v) == JObj(DefineProperty(obj.p, k, v))
\* An array literal.
ArrayOf(items) == JObj([i \in 1..Len(items) |-> <<NumberToString(i - 1), items[i]>>])
\* array.filter(keep)
Filter(array, keep(_)) ==
    LET kept == SelectSeq(array.p, LAMBDA e : keep(e[2]))
    IN ArrayOf([i \in 1..Len(kept) |-> kept[i][2]])
\* array.map(f)
Map(array, f(_)) == ArrayOf([i \in 1..Len(array.p) |-> f(array.p[i][2])])

\* { count: n }
Count(n) == JObj(<<<<<<"c", "o", "u", "n", "t">>, JNum(n)>>>>)
KeyQuestions == <<"q", "u", "e", "s", "t", "i", "o", "n", "s">>
KeyOptions == <<"o", "p", "t", "i", "o", "n", "s">>
KeyId == <<"i", "d">>
\* { id, options: [...] }
Question(id, opts) ==
    JObj(<<<<KeyId, JNum(id)>>,
           <<KeyOptions, ArrayOf([i \in 1..Len(opts) |-> JStr(<<opts[i]>>)])>>>>)
\* { questions: [...] }
Quiz(questions) == JObj(<<<<KeyQuestions, ArrayOf(questions)>>>>)

\* The states of the model's components: counters, and quizzes of up to two
\* questions with up to three options.
MaxCount == 4
OptionLists == {<<"A">>, <<"A", "B">>, <<"A", "B", "C">>, <<"A", "C">>, <<"A", "C", "C">>}
Questions == {Question(id, opts) : id \in {1, 2}, opts \in OptionLists}
HookStates ==
    {Count(n) : n \in 0..MaxCount}
        \cup {Quiz(<<>>)} \cup {Quiz(<<q>>) : q \in Questions}
        \cup {Quiz(<<q1, q2>>) : q1 \in Questions, q2 \in Questions}

\* JSON.parse(JSON.stringify(obj)) of each of them.
JSONClone == [obj \in HookStates |-> JSONParse(JSONStringify(obj)).val]

\* deepClone: structuredClone where it is defined, else a JSON round trip.
deepClone(obj) ==
    IF hookOptions.structuredClone THEN obj ELSE JSONClone[obj]

\* The updater functions handed to setState.
\* (prev) => ({ count: prev.count + 1 })
\* (prev) => ({ ...prev, questions: prev.questions.filter((q) => q.id !== 1) })
\* (prev) => ({ ...prev, questions: prev.questions.map((q) =>
\*                ({ ...q, options: [...q.options, 'C'] })) })
ApplyUpdater(updater, prev) ==
    CASE updater = "increment" ->
             Count(Get(prev.p, <<"c", "o", "u", "n", "t">>).n + 1)
      [] updater = "deleteQuestion" ->
             With(prev, KeyQuestions,
                  Filter(Get(prev.p, KeyQuestions), LAMBDA q : Get(q.p, KeyId).n # 1))
      [] updater = "addOption" ->
             With(prev, KeyQuestions,
                  Map(Get(prev.p, KeyQuestions),
                      LAMBDA q : With(q, KeyOptions,
                                      LET o == Get(q.p, KeyOptions)
                                      IN ArrayOf([i \in 1..(Len(o.p) + 1) |->
                                              IF i <= Len(o.p) THEN o.p[i][2]
                                              ELSE JStr(<<"C">>)]))))

\* The hook's return value at a render.
Render(state, history, currentIndex) ==
    [state |-> state,
     canUndo |-> currentIndex > 0,
     canRedo |-> currentIndex < Len(history) - 1]

\* The record of a call: which function, how setState got its state, whether
\* the function got past its guard, the state it was given (null for none and
\* for an updater), the state it was called in, and the call before it.
Called(op, by, acted, arg) ==
    hookCall' = [op |-> op, by |-> by, acted |-> acted, arg |-> arg, from |-> rendered.state,
                 prevOp |-> hookCall.op, prevBy |-> hookCall.by,
                 prevActed |-> hookCall.acted, prevFrom |-> hookCall.from]

\* A push that keeps the states after the current one.
PushKeepingFuture(resolvedState) ==
    LET clonedState == deepClone(resolvedState)
        pushed == Append(historyRef, clonedState)
    IN /\ IF Len(pushed) > hookOptions.maxHistorySize
          THEN /\ historyRef' = Tail(pushed)
               /\ currentIndexRef' = currentIndexRef
          ELSE /\ historyRef' = pushed
               /\ currentIndexRef' = currentIndexRef + 1
       /\ rendered' = Render(clonedState, historyRef', currentIndexRef')

\* A push that never drops the oldest state.
PushUnbounded(resolvedState) ==
    LET clonedState == deepClone(resolvedState)
    IN /\ historyRef' = Append(SubSeq(historyRef, 1, currentIndexRef + 1), clonedState)
       /\ currentIndexRef' = currentIndexRef + 1
       /\ rendered' = Render(clonedState, historyRef', currentIndexRef')

\* The body of the function handed to setStateInternal by setState, and the
\* render that follows.
Push(resolvedState) ==
    LET clonedState == deepClone(resolvedState)
        kept == SubSeq(historyRef, 1, currentIndexRef + 1)
        pushed == Append(kept, clonedState)
    IN /\ IF Len(pushed) > hookOptions.maxHistorySize
          THEN /\ historyRef' = Tail(pushed)
               /\ currentIndexRef' = currentIndexRef
          ELSE /\ historyRef' = pushed
               /\ currentIndexRef' = currentIndexRef + 1
       /\ rendered' = Render(clonedState, historyRef', currentIndexRef')

\* A value, or an updater function by its name.
Value(v) == [fn |-> "none", value |-> v]
Updater(fn) == [fn |-> fn, value |-> JNull]

HistorySizes == {1, 2, 3}
QuizOne == Quiz(<<Question(1, <<"A", "B">>)>>)
QuizTwo == Quiz(<<Question(1, <<"A", "B">>), Question(2, <<"A">>)>>)
StatesOf(kind) ==
    IF kind = "counter" THEN {Count(n) : n \in 0..MaxCount} ELSE {QuizOne, QuizTwo}
InitialStateOf(kind) == IF kind = "counter" THEN Count(0) ELSE QuizOne
\* The updaters a state can take within the bounds.
UpdatersOf(kind, state) ==
    IF kind = "counter"
    THEN (IF Get(state.p, <<"c", "o", "u", "n", "t">>).n < MaxCount THEN {"increment"} ELSE {})
    ELSE {"deleteQuestion"}
             \cup (IF \A i \in 1..Len(Get(state.p, KeyQuestions).p) :
                        Len(Get(Get(state.p, KeyQuestions).p[i][2].p, KeyOptions).p) < 3
                   THEN {"addOption"} ELSE {})
NewStates ==
    {Value(v) : v \in StatesOf(hookOptions.kind)}
        \cup {Updater(fn) : fn \in UpdatersOf(hookOptions.kind, rendered.state)}

(***************************************************************************)
(* A component using the hook                                              *)
(***************************************************************************)
SetState(newState) ==
    /\ LET resolvedState == IF newState.fn # "none"
                            THEN ApplyUpdater(newState.fn, rendered.state)
                            ELSE newState.value
       IN Push(resolvedState)
    /\ Called("setState", IF newState.fn # "none" THEN "updater" ELSE "value", TRUE,
              newState.value)
    /\ UNCHANGED <<hookOptions, nonHookVars>>

\* An undo that goes back to the oldest state.
UndoToOldest ==
    /\ IF currentIndexRef > 0
       THEN /\ currentIndexRef' = 0
            /\ rendered' = Render(deepClone(historyRef[1]), historyRef, currentIndexRef')
       ELSE UNCHANGED <<currentIndexRef, rendered>>
    /\ Called("undo", "none", currentIndexRef > 0, JNull)
    /\ UNCHANGED <<hookOptions, historyRef, nonHookVars>>

\* An undo that renders without looking at the current index.
UndoUnguarded ==
    /\ currentIndexRef' = IF currentIndexRef > 0 THEN currentIndexRef - 1 ELSE 0
    /\ rendered' = Render(deepClone(historyRef[currentIndexRef' + 1]), historyRef, 1)
    /\ Called("undo", "none", currentIndexRef > 0, JNull)
    /\ UNCHANGED <<hookOptions, historyRef, nonHookVars>>

Undo ==
    /\ IF currentIndexRef > 0
       THEN /\ currentIndexRef' = currentIndexRef - 1
            /\ rendered' = Render(deepClone(historyRef[currentIndexRef' + 1]),
                                  historyRef, currentIndexRef')
       ELSE UNCHANGED <<currentIndexRef, rendered>>
    /\ Called("undo", "none", currentIndexRef > 0, JNull)
    /\ UNCHANGED <<hookOptions, historyRef, nonHookVars>>

\* A redo that goes on to the newest state.
RedoToNewest ==
    /\ IF currentIndexRef < Len(historyRef) - 1
       THEN /\ currentIndexRef' = Len(historyRef) - 1
            /\ rendered' = Render(deepClone(historyRef[currentIndexRef' + 1]),
                                  historyRef, currentIndexRef')
       ELSE UNCHANGED <<currentIndexRef, rendered>>
    /\ Called("redo", "none", currentIndexRef < Len(historyRef) - 1, JNull)
    /\ UNCHANGED <<hookOptions, historyRef, nonHookVars>>

Redo ==
    /\ IF currentIndexRef < Len(historyRef) - 1
       THEN /\ currentIndexRef' = currentIndexRef + 1
            /\ rendered' = Render(deepClone(historyRef[currentIndexRef' + 1]),
                                  historyRef, currentIndexRef')
       ELSE UNCHANGED <<currentIndexRef, rendered>>
    /\ Called("redo", "none", currentIndexRef < Len(historyRef) - 1, JNull)
    /\ UNCHANGED <<hookOptions, historyRef, nonHookVars>>

\* A reset that puts the new state on top of the history.
ResetKeepingHistory(newInitialState) ==
    /\ Push(newInitialState)
    /\ Called("reset", "none", TRUE, newInitialState)
    /\ UNCHANGED <<hookOptions, nonHookVars>>

Reset(newInitialState) ==
    /\ LET clonedState == deepClone(newInitialState)
       IN /\ historyRef' = <<clonedState>>
          /\ currentIndexRef' = 0
          /\ rendered' = Render(clonedState, historyRef', currentIndexRef')
    /\ Called("reset", "none", TRUE, newInitialState)
    /\ UNCHANGED <<hookOptions, nonHookVars>>

\* clearHistory sets the refs and no state: nothing renders.
ClearHistory ==
    /\ LET currentState == deepClone(rendered.state)
       IN /\ historyRef' = <<currentState>>
          /\ currentIndexRef' = 0
    /\ Called("clearHistory", "none", TRUE, JNull)
    /\ UNCHANGED <<hookOptions, rendered, nonHookVars>>

\* The component renders again for a reason of its own (QuizBuilder's
\* editingQuestionId): the hook returns the same state and the flags of the
\* refs as they are now.
Rerender ==
    /\ rendered' = Render(rendered.state, historyRef, currentIndexRef)
    /\ rendered' # rendered
    /\ UNCHANGED <<hookOptions, historyRef, currentIndexRef, hookCall, nonHookVars>>

\* The first render: useState(initialState), useRef([deepClone(initialState)]).
HookInit ==
    /\ \E size \in HistorySizes, sc \in BOOLEAN, kind \in {"counter", "quiz"} :
          hookOptions = [maxHistorySize |-> size, structuredClone |-> sc, kind |-> kind]
    /\ historyRef = <<deepClone(InitialStateOf(hookOptions.kind))>>
    /\ currentIndexRef = 0
    /\ rendered = Render(InitialStateOf(hookOptions.kind), historyRef, currentIndexRef)
    /\ hookCall = NoCall
    /\ CodecIdle
    /\ CalcIdle
    /\ BuildIdle
    /\ PackagerIdle
    /\ ServerIdle
    /\ version = "1.2"
    /\ frames = Chain(1, {1})
    /\ pc = "hook"
    /\ WalkIdle
    /\ scormAPI = NoAPI
    /\ sessionTimer = 0
    /\ now = StartMillis
    /\ lms = [initialized |-> FALSE, terminated |-> FALSE, suspend |-> <<>>]
    /\ last = [op |-> "none", arg |-> NoArgs, ret |-> JNull, throws |-> FALSE, calls |-> <<>>,
               log |-> <<>>]

HookNext ==
    \/ \E newState \in NewStates : SetState(newState)
    \/ Undo
    \/ Redo
    \/ \E newInitialState \in StatesOf(hookOptions.kind) : Reset(newInitialState)
    \/ ClearHistory
    \/ Rerender

SpecHook == HookInit /\ [][HookNext]_vars

(***************************************************************************)
(* The scorm router serving several generatePackage requests at once: each *)
(* request runs from one await to the next, and the others run in between. *)
(***************************************************************************)
MaxMillis == 1

AlphaNumeric ==
    {"a", "b", "c", "d", "e", "f", "g", "h", "i", "j", "k", "l", "m", "n", "o", "p", "q",
     "r", "s", "t", "u", "v", "w", "x", "y", "z",
     "A", "B", "C", "D", "E", "F", "G", "H", "I", "J", "K", "L", "M", "N", "O", "P", "Q",
     "R", "S", "T", "U", "V", "W", "X", "Y", "Z"} \cup Digits

\* title.replace(/[^a-z0-9]/gi, '_')
Sanitize(title) ==
    [i \in 1..Len(title) |-> IF title[i] \in AlphaNumeric THEN title[i] ELSE "_"]

\* `${project[0].title.replace(/[^a-z0-9]/gi, '_')}_${timestamp}.zip`
FilenameOf(title, timestamp) ==
    Sanitize(title) \o <<"_">> \o NumberToString(timestamp) \o <<".", "z", "i", "p">>

\* The projects of the database, by id, with their titles: two titles that
\* differ and are the same once sanitized, and a third.
ProjectTitles ==
    <<<<"A", " ", "b">>, <<"A", "_", "b">>, <<"A", "b">>>>

\* generatePackage is called: the selects are issued.
Receive(r) ==
    /\ requests[r].pc = "idle"
    /\ \E p \in DOMAIN ProjectTitles, v \in {"1.2", "2004"} :
          requests' = [requests EXCEPT ![r] = [NoRequest EXCEPT !.pc = "select",
                                                                 !.projectId = p,
                                                                 !.version = v]]
    /\ UNCHANGED <<server, nonServerVars>>

\* The rows are there: courseData, the worst-case check, await fs.readFile(templatePath)
Selected(r) ==
    /\ requests[r].pc = "select"
    /\ requests' = [requests EXCEPT ![r].pc = "readFile"]
    /\ UNCHANGED <<server, nonServerVars>>

\* The template is read: placeholders, scormConfig, await fs.mkdir(outputDir)
TemplateRead(r) ==
    /\ requests[r].pc = "readFile"
    /\ requests' = [requests EXCEPT ![r].pc = "mkdir"]
    /\ server' = [server EXCEPT !.exportsDir = TRUE]
    /\ UNCHANGED nonServerVars

\* The directory is there: timestamp = Date.now(), filename, outputPath, and
\* createPackage, which runs to the end of zip.writeZip(outputPath) without an
\* await; a file already at the path is replaced.
DirMade(r) ==
    /\ requests[r].pc = "mkdir"
    /\ LET filename == FilenameOf(ProjectTitles[requests[r].projectId], server.now)
           archive == [path |-> filename, by |-> r, projectId |-> requests[r].projectId,
                       version |-> requests[r].version]
       IN /\ requests' = [requests EXCEPT ![r].pc = "createPackage",
                                          ![r].filename = filename]
          /\ server' = [server EXCEPT
                           !.exports = {a \in @ : a.path # filename} \cup {archive}]
    /\ UNCHANGED nonServerVars

\* createPackage's promise is resolved: await ctx.db.update(projects).set({ status: 'published' })
Packaged(r) ==
    /\ requests[r].pc = "createPackage"
    /\ requests' = [requests EXCEPT ![r].pc = "update"]
    /\ server' = [server EXCEPT !.published = @ \cup {requests[r].projectId}]
    /\ UNCHANGED nonServerVars

\* The update is done: return { success: true, filename, ... }
Updated(r) ==
    /\ requests[r].pc = "update"
    /\ requests' = [requests EXCEPT ![r].pc = "done", ![r].returned = requests[r].filename]
    /\ UNCHANGED <<server, nonServerVars>>

\* A millisecond passes on the server's clock.
Millisecond ==
    /\ server.now < StartMillis + MaxMillis
    /\ server' = [server EXCEPT !.now = @ + 1]
    /\ UNCHANGED <<requests, nonServerVars>>

ServerInit ==
    /\ requests = [r \in Requests |-> NoRequest]
    /\ server = [now |-> StartMillis, exportsDir |-> FALSE, exports |-> {}, published |-> {}]
    /\ CodecIdle
    /\ CalcIdle
    /\ BuildIdle
    /\ PackagerIdle
    /\ HookIdle
    /\ version = "1.2"
    /\ frames = Chain(1, {1})
    /\ pc = "server"
    /\ WalkIdle
    /\ scormAPI = NoAPI
    /\ sessionTimer = 0
    /\ now = StartMillis
    /\ lms = [initialized |-> FALSE, terminated |-> FALSE, suspend |-> <<>>]
    /\ last = [op |-> "none", arg |-> NoArgs, ret |-> JNull, throws |-> FALSE, calls |-> <<>>,
               log |-> <<>>]

ServerNext ==
    \/ \E r \in Requests : Receive(r)
    \/ \E r \in Requests : Selected(r)
    \/ \E r \in Requests : TemplateRead(r)
    \/ \E r \in Requests : DirMade(r)
    \/ \E r \in Requests : Packaged(r)
    \/ \E r \in Requests : Updated(r)
    \/ Millisecond

SpecServer == ServerInit /\ [][ServerNext]_vars

(***************************************************************************)
(* Properties                                                              *)
(***************************************************************************)
V == Vocab(version)
IsSuspendWrite(c) == c.fn = V.set /\ c.key = V.suspend

\* The session is up: the API was found and the host's initialize returned "true".
SessionStarted == scormAPI # NoAPI /\ sessionTimer # 0

\* Size checks of the build side, for each bookmark of the content.
BridgeValid == [data \in BridgeStates |-> validate(data)]
BridgeSize == [data \in BridgeStates |-> getSize(data)]

\* Two JavaScript values are deep-equal: plain objects as mappings, whatever
\* the order of their keys.
RECURSIVE DeepEqual(_, _)
DeepEqual(a, b) ==
    /\ a.t = b.t
    /\ a.n = b.n
    /\ a.s = b.s
    /\ Len(a.p) = Len(b.p)
    /\ \A i \in 1..Len(a.p) :
          \E j \in 1..Len(b.p) : a.p[i][1] = b.p[j][1] /\ DeepEqual(a.p[i][2], b.p[j][2])

\* C1: after a successful initialize, a finishSCORM that directly follows a
\* finishSCORM makes no host call: the two together write the session time,
\* commit and terminate once.
FinishTwiceIsOnce ==
    [][(SessionStarted /\ last.op = "finishSCORM" /\ FinishSCORM) => last'.calls = <<>>]_vars

\* C2: every host data call (get, set, commit, terminate) is made after the
\* host's initialize has returned "true", and no host call is made after the
\* host's terminate has returned "true".
HostCallsInsideSession ==
    \A i \in 1..Len(last.calls) :
        /\ last.calls[i].fn # V.init => last.calls[i].open
        /\ ~last.calls[i].closed

\* C3: a value is written to cmi.suspend_data only by setSuspendData, it is the
\* whole serialization of the state given, and it is at most 4096 characters.
SuspendWritesFit ==
    \A i \in 1..Len(last.calls) :
        IsSuspendWrite(last.calls[i]) =>
            /\ last.op = "setSuspendData"
            /\ last.calls[i].val = BridgeJSON[last.arg.data]
            /\ Len(last.calls[i].val) <= 4096

\* a bookmark of exactly 4096 characters was handed to the host
SuspendWriteAtLimit ==
    /\ last.op = "setSuspendData"
    /\ Len(last.calls) = 1
    /\ IsSuspendWrite(last.calls[1])
    /\ Len(last.calls[1].val) = 4096

\* C4: serialize throws exactly when the serialized state is longer than 4096
\* characters, validate returns false exactly then, and so the two agree.
SerializeValidateAgree ==
    LET tooLong == Len(JSONStringify(cin)) > 4096
    IN /\ cout["serialize"].done => (cout["serialize"].throws <=> tooLong)
       /\ cout["validate"].done => (cout["validate"].val = FALSE <=> tooLong)
       /\ (cout["serialize"].done /\ cout["validate"].done)
              => (cout["serialize"].throws <=> cout["validate"].val = FALSE)

\* serialize and validate both accepted a state of exactly 4096 characters
AcceptedAtLimit ==
    /\ cout["serialize"].done /\ ~cout["serialize"].throws
    /\ cout["validate"].done /\ cout["validate"].val = TRUE
    /\ Len(cout["serialize"].val.s) = 4096

\* C5: deserialize of what serialize returned is deep-equal to the state serialized.
RoundTrip ==
    (cout["serialize"].done /\ ~cout["serialize"].throws /\ cout["deserialize"].done)
        => /\ ~cout["deserialize"].throws
           /\ DeepEqual(cout["deserialize"].val, cin)

\* a state whose keys and tokens need escaping went through serialize and deserialize
RoundTripEscaped ==
    /\ cout["serialize"].done /\ ~cout["serialize"].throws /\ cout["deserialize"].done
    /\ \E i \in 1..Len(ctext) : ctext[i] = Backslash
    /\ cout["deserialize"].val.t = "obj"

\* C6: deserialize and getSuspendData never throw, and return null for an
\* empty, a blank and a malformed string.
Malformed(text) == Len(text) = 0 \/ IsBlank(text) \/ JSONParse(text).throws
ResumeDataFailsSoft ==
    \A m \in {"deserialize", "getSuspendData"} :
        cout[m].done => /\ ~cout[m].throws
                        /\ Malformed(ctext) => cout[m].val = JNull

\* both readers were given a non-empty string that is not JSON
MalformedRead ==
    /\ cout["deserialize"].done /\ cout["getSuspendData"].done
    /\ Len(ctext) > 0 /\ ~IsBlank(ctext) /\ JSONParse(ctext).throws

\* C7: the bridge (1.2 or 2004) hands a bookmark to the host exactly when the
\* build-side validate accepts it, i.e. when getSize is at most 4096.
RuntimeCheckIsBuildCheck ==
    (last.op = "setSuspendData" /\ scormAPI # NoAPI)
        => /\ (last.calls # <<>>) <=> BridgeValid[last.arg.data]
           /\ (last.calls # <<>>) <=> (BridgeSize[last.arg.data] <= 4096)

\* the bridge refused a bookmark that validate refuses
RuntimeRefusal ==
    /\ last.op = "setSuspendData" /\ scormAPI # NoAPI
    /\ last.calls = <<>>
    /\ ~BridgeValid[last.arg.data]

\* C8: initializeSCORM fails, with the timer not started and the status neither
\* read nor written, when the host's initialize returns anything but "true";
\* when it returns "true" the status is read, and "incomplete" is written
\* exactly when the status read is empty or the version's initial default.
InitializeContract ==
    (last.op = "initializeSCORM" /\ scormAPI # NoAPI)
        => LET cs == last.calls
           IN /\ Len(cs) >= 1 /\ cs[1].fn = V.init
              /\ cs[1].ret # "true"
                    => last.ret = JFalse /\ sessionTimer = 0 /\ Len(cs) = 1
              /\ cs[1].ret = "true"
                    => /\ last.ret = JTrue /\ sessionTimer # 0
                       /\ Len(cs) >= 2 /\ cs[2].fn = V.get /\ cs[2].key = V.status
                       /\ IF cs[2].ret \in {"", V.notSet}
                          THEN /\ Len(cs) = 3
                               /\ cs[3].fn = V.set /\ cs[3].key = V.status
                               /\ cs[3].val = "incomplete"
                          ELSE Len(cs) = 2

\* the host held a status of its own, and initializeSCORM left it alone
StatusKept ==
    /\ last.op = "initializeSCORM" /\ last.ret = JTrue
    /\ Len(last.calls) = 2
    /\ last.calls[2].ret = "completed"

\* C9: findAPI ends, after at most 500 parent hops, in every hierarchy.
FindAPITerminates == [](attempts <= maxAttempts) /\ <>(pc = "returned")

\* the loop was left by the bound, in a hierarchy whose parents form a cycle
BoundReachedInCycle ==
    /\ pc = "returned"
    /\ attempts = maxAttempts
    /\ frames.parent = <<2, 3, 1>>

\* C10: a setSuspendData in a started session that is turned down, by its own
\* size check (no host call) or by the host (a return other than "true"),
\* returns false and leaves the API handle and the session start time as they
\* are; with no host call made the host holds what it held; and the save,
\* score, commit and terminate that follow a save that returned false reach the host.
RejectedSaveKeepsSession ==
    [][/\ (/\ SessionStarted
           /\ \E data \in BridgeStates : SetSuspendData(data)
           /\ (last'.calls = <<>> \/ last'.calls[1].ret # "true"))
            => /\ last'.ret = JFalse
               /\ scormAPI' = scormAPI /\ sessionTimer' = sessionTimer /\ pc' = pc
               /\ last'.calls = <<>> => lms' = lms
       /\ (/\ SessionStarted /\ last.op = "setSuspendData" /\ last.ret = JFalse
           /\ \/ \E data \in BridgeStates : BridgeValid[data] /\ SetSuspendData(data)
              \/ \E score \in ScoreArgs : SetScore(score)
              \/ CommitData
              \/ FinishSCORM)
            => last'.calls # <<>>
      ]_vars

\* the host turned a bookmark down, and the session is still up
HostRejectedSave ==
    /\ last.op = "setSuspendData" /\ last.ret = JFalse
    /\ Len(last.calls) = 1 /\ last.calls[1].ret = "false"
    /\ SessionStarted

\* C11: a window unload in an active session (initialized, not terminated before
\* by an explicit exit) runs the terminate sequence: the unload handler writes
\* the session time, commits and calls the host's terminate primitive.
UnloadTerminates ==
    (last.op = "beforeunload" /\ SessionStarted /\ lms.initialized /\ ~lms.terminated)
        => /\ \E i \in 1..Len(last.calls) :
                 last.calls[i].fn = V.set /\ last.calls[i].key = V.sessionTime
           /\ \E i \in 1..Len(last.calls) : last.calls[i].fn = V.commit
           /\ \E i \in 1..Len(last.calls) : last.calls[i].fn = V.finish

\* C12: calculateScore returns 0 for an empty answer key, whatever the answers.
EmptyKeyScoresZero ==
    ("calculateScore" \in fout.done /\ fin.key = <<>>) => fout.score = 0

\* answers were scored against an empty key
AnswersScoredAgainstEmptyKey ==
    /\ "calculateScore" \in fout.done
    /\ fin.key = <<>>
    /\ fin.answers # <<>>

\* The keyed questions answered with exactly the key's token, the mappings
\* taken as sets of entries.
CorrectlyAnswered(answers, key) ==
    {k \in {key[i] : i \in 1..Len(key)} : \E j \in 1..Len(answers) : answers[j] = k}

\* C13: for a non-empty key, the score is an integer in 0..100 that is nearest
\* to 100 * correct / keyed, where correct counts the keyed questions whose
\* submitted token equals the key's token (answers to other questions and
\* missing answers count for nothing); it is the same for the entries of
\* either mapping in another order.
ScoreIsPercentageCorrect ==
    ("calculateScore" \in fout.done /\ fin.key # <<>>)
        => LET keyed == Len(fin.key)
               correct == Cardinality(CorrectlyAnswered(fin.answers, fin.key))
               off == 200 * correct - 2 * keyed * fout.score
           IN /\ fout.score \in 0..100
              /\ off <= keyed /\ -off <= keyed
              /\ fout.score = calculateScore(Reverse(fin.answers), fin.key)
              /\ fout.score = calculateScore(fin.answers, Reverse(fin.key))

\* two of three keyed questions right, one answer missing, one answer to a
\* question that is not in the key, the entries not in the key's order
PartialScore ==
    /\ "calculateScore" \in fout.done
    /\ Len(fin.key) = 3 /\ fout.score = 67
    /\ Len(fin.answers) = 3
    /\ fin.answers[1][1] = <<"x">>
    /\ fin.key[1][1] = QId(3)

\* C14: without a quiz the status is "completed", whatever the score and the
\* passing score.
NoQuizIsCompleted ==
    ("getCompletionStatus" \in fout.done /\ ~fin.hasQuiz) => fout.status = "completed"

\* no quiz, and a score below the passing score
NoQuizBelowPassing ==
    /\ "getCompletionStatus" \in fout.done
    /\ ~fin.hasQuiz
    /\ fin.score < fin.passingScore

\* C15: with a quiz the status is "passed" exactly when score >= passingScore
\* and "failed" otherwise; the wrappers write the same for a score supplied.
PassedIffAtLeastPassing ==
    /\ ("getCompletionStatus" \in fout.done /\ fin.hasQuiz)
          => /\ fout.status \in {"passed", "failed"}
             /\ fout.status = "passed" <=> fin.score >= fin.passingScore
    /\ "setCompletionStatus" \in fout.done
          => /\ fout.written \in {"passed", "failed"}
             /\ fout.written = "passed" <=> fin.score >= fin.passingScore
    /\ ({"getCompletionStatus", "setCompletionStatus"} \subseteq fout.done /\ fin.hasQuiz)
          => fout.written = fout.status

\* a score equal to the passing score passed, in the calculator and in the wrappers
PassedOnEquality ==
    /\ {"getCompletionStatus", "setCompletionStatus"} \subseteq fout.done
    /\ fin.hasQuiz
    /\ fin.score = fin.passingScore /\ fin.score > 0
    /\ fout.status = "passed" /\ fout.written = "passed"

\* A number in decimal, with a leading zero when below ten.
TwoDigits(n) == IF n < 10 THEN <<"0", DigitChars[n + 1]>> ELSE NumberToString(n)

\* C16: for e whole seconds elapsed, with h = e div 3600, m = (e mod 3600) div 60
\* and s = e mod 60, the 1.2 session time is h:m:s with each number in at least
\* two digits (hours never wrapped: 100 hours is 100:00:00), the 2004 session
\* time is PT{h}H{m}M{s}S unpadded; 3661 seconds are 01:01:01 and PT1H1M1S; the
\* server's SessionTimer and the wrappers' getSessionTime give the same strings.
SessionTimeFormats ==
    LET e == (fin.clock - fin.startTime) \div 1000
        h == e \div 3600
        m == (e % 3600) \div 60
        sec == e % 60
        hhmmss == TwoDigits(h) \o <<":">> \o TwoDigits(m) \o <<":">> \o TwoDigits(sec)
        iso == <<"P", "T">> \o NumberToString(h) \o <<"H">> \o NumberToString(m) \o <<"M">>
                   \o NumberToString(sec) \o <<"S">>
    IN /\ "SessionTimer" \in fout.done
          => /\ fout.server12 = hhmmss /\ fout.server2004 = iso
             /\ e = 3661 => /\ fout.server12 = <<"0", "1", ":", "0", "1", ":", "0", "1">>
                            /\ fout.server2004 = <<"P", "T", "1", "H", "1", "M", "1", "S">>
             /\ e = 360000 => fout.server12 = <<"1", "0", "0", ":", "0", "0", ":", "0", "0">>
       /\ "getSessionTime" \in fout.done
          => /\ fout.frame12 = hhmmss /\ fout.frame2004 = iso
             /\ e = 3661 => /\ fout.frame12 = <<"0", "1", ":", "0", "1", ":", "0", "1">>
                            /\ fout.frame2004 = <<"P", "T", "1", "H", "1", "M", "1", "S">>
             /\ e = 360000 => fout.frame12 = <<"1", "0", "0", ":", "0", "0", ":", "0", "0">>
       /\ {"SessionTimer", "getSessionTime"} \subseteq fout.done
          => fout.frame12 = fout.server12 /\ fout.frame2004 = fout.server2004

\* one hundred hours were rendered on both sides
HundredHours ==
    /\ {"SessionTimer", "getSessionTime"} \subseteq fout.done
    /\ fin.clock - fin.startTime = 360000000
    /\ fout.frame12 = <<"1", "0", "0", ":", "0", "0", ":", "0", "0">>

\* The request in flight is a package build of a project whose worst case
\* does not fit.
OversizeBuild ==
    /\ build.procedure = "generatePackage"
    /\ project.exists
    /\ getSize(testSuspendData(project.lessons, project.quiz, EpochSeconds)) > MAX_LENGTH

\* C17: a package build of a project whose worst-case suspend state exceeds
\* 4096 characters gets no further than the worst-case check and fails there:
\* the template is not read, the export directory gets no archive and the
\* project's status stays what it was when the build was called.
OversizeBuildLeavesNothing ==
    OversizeBuild =>
        /\ build.pc \in {"validate", "failed"}
        /\ ~build.templateRead
        /\ disk.archives = build.archivesBefore
        /\ ~disk.exports
        /\ project.status = build.statusBefore
        /\ build.pc = "failed" => build.error # ProjectNotFound

OversizeBuildFailed ==
    /\ OversizeBuild
    /\ build.pc = "failed"
    /\ disk.template
    /\ project.status = "ready"

\* C18: for a project with 500 quiz questions the pre-flight check returns
\* isValid false, and the error of the failed package build names both the
\* actual size and the limit 4096.
OversizeErrorNamesBothSizes ==
    /\ (build.pc = "done" /\ build.procedure = "validateSuspendData" /\ build.quiz = 500)
           => ~build.result.isValid
    /\ (build.pc = "failed" /\ OversizeBuild /\ build.quiz = 500)
           => /\ Contains(build.error,
                          NumberToString(getSize(testSuspendData(build.lessons, build.quiz,
                                                                  EpochSeconds))))
              /\ Contains(build.error, NumberToString(MAX_LENGTH))

\* C19: for a project with 15 lessons and 5 quiz questions the pre-flight
\* check returns a size under 200 characters, isValid true and limit 4096.
SmallCourseFits ==
    (build.pc = "done" /\ build.procedure = "validateSuspendData"
        /\ build.lessons = 15 /\ build.quiz = 5)
        => /\ build.result.size < 200
           /\ build.result.size
                  = Len(JSONStringify(SuspendData(14, EpochSeconds, WorstCaseAnswers(5))))
           /\ build.result.isValid
           /\ build.result.limit = 4096
           /\ build.result.lessonsCount = 15
           /\ build.result.quizQuestionsCount = 5

SmallCourseChecked ==
    /\ build.pc = "done"
    /\ build.procedure = "validateSuspendData"
    /\ project.exists
    /\ build.lessons = 15
    /\ build.quiz = 5

\* The entity a character is written as in markup text; any other character
\* is itself.
EntityOf(c) ==
    CASE c = "&" -> <<"&", "a", "m", "p", ";">>
      [] c = "<" -> <<"&", "l", "t", ";">>
      [] c = ">" -> <<"&", "g", "t", ";">>
      [] c = Quote -> <<"&", "q", "u", "o", "t", ";">>
      [] c = "'" -> <<"&", "a", "p", "o", "s", ";">>
      [] OTHER -> <<c>>

\* Every character of the text as its entity, once.
RECURSIVE EscapedOnce(_)
EscapedOnce(text) ==
    IF Len(text) = 0 THEN <<>> ELSE EntityOf(text[1]) \o EscapedOnce(Tail(text))

\* The substituted values of a manifest, in document order.
Substitutions(m) == SelectSeq(m, LAMBDA piece : piece.kind = "subst")

\* Only digits and the decimal point.
IsNumeral(chars) == \A i \in 1..Len(chars) : chars[i] \in Digits \cup {"."}

\* C20: in the manifest of either version, the values substituted into the
\* markup are the timestamp, the title twice and one score; each title is the
\* package config's title with every reserved character written as its entity exactly
\* once, so no <, >, " or ' stands there and every & begins an entity; the
\* description is substituted nowhere.
ManifestTextEscaped ==
    manifest # <<>> =>
        LET subst == Substitutions(manifest)
            titles == {2, 3}
        IN /\ Len(subst) = 4
           /\ \A i \in titles :
                 /\ subst[i].chars = EscapedOnce(scormConfig.courseTitle)
                 /\ \A k \in 1..Len(subst[i].chars) :
                       /\ subst[i].chars[k] \notin {"<", ">", Quote, "'"}
                       /\ subst[i].chars[k] = "&" =>
                             \E e \in {EntityOf(c) : c \in {"&", "<", ">", Quote, "'"}} :
                                 SubSeq(subst[i].chars, k, k + Len(e) - 1) = e
           /\ \A i \in (1..4) \ titles : IsNumeral(subst[i].chars)

ReservedTitleEmbedded ==
    /\ manifest # <<>>
    /\ scormConfig.version = "2004"
    /\ scormConfig.courseTitle = <<"<", "&", Quote>>
    /\ scormConfig.courseDescription # <<>>

\* C21: the threshold substituted into the manifest is, for 1.2, the mastery
\* score as a whole percentage from 0 to 100 and, for 2004, the passing score
\* divided by 100, written with one digit before the point and two after it,
\* a measure from 0 to 1.
ManifestThreshold ==
    manifest # <<>> =>
        LET threshold == Substitutions(manifest)[4].chars
        IN IF scormConfig.version = "1.2"
           THEN /\ \A i \in 1..Len(threshold) : threshold[i] \in Digits
                /\ NumVal(threshold) = scormConfig.masteryScore
                /\ NumVal(threshold) \in 0..100
           ELSE /\ Len(threshold) = 4
                /\ threshold[2] = "."
                /\ \A i \in {1, 3, 4} : threshold[i] \in Digits
                /\ 100 * DigitValue(threshold[1]) + NumVal(SubSeq(threshold, 3, 4))
                       = scormConfig.passingScore
                /\ threshold[1] \in {"0", "1"}
                /\ threshold[1] = "1" => SubSeq(threshold, 3, 4) = <<"0", "0">>

SmallThresholdNormalized ==
    /\ manifest # <<>>
    /\ scormConfig.version = "2004"
    /\ scormConfig.passingScore = 7
    /\ Substitutions(manifest)[4].chars = <<"0", ".", "0", "7">>

\* C22 as stated: where an undo follows a setState, by value or by updater,
\* the state is again the state the setState was called in, nested arrays and
\* objects included, and canRedo is true.
UndoRestoresState ==
    (hookCall.op = "undo" /\ hookCall.prevOp = "setState")
        => /\ rendered.state = hookCall.prevFrom
           /\ rendered.canRedo

\* C22: with a maxHistorySize of at least 2, where an undo follows a setState,
\* by value or by updater, the state is again the state the setState was
\* called in, nested arrays and objects included, and canRedo is true.
UndoRestoresStateWithRoom ==
    (hookCall.op = "undo" /\ hookCall.prevOp = "setState" /\ hookOptions.maxHistorySize >= 2)
        => /\ rendered.state = hookCall.prevFrom
           /\ rendered.canRedo

\* the deletion of a question by an updater is undone
DeletionUndone ==
    /\ hookCall.op = "undo"
    /\ hookCall.prevOp = "setState"
    /\ hookCall.prevBy = "updater"
    /\ hookOptions.maxHistorySize >= 2
    /\ ~hookOptions.structuredClone
    /\ hookCall.from = Quiz(<<>>)
    /\ rendered.state = Quiz(<<Question(1, <<"A", "B", "C">>)>>)

HistoryBounded ==
    /\ [](/\ Len(historyRef) <= hookOptions.maxHistorySize
          /\ currentIndexRef \in 0..(Len(historyRef) - 1)
          /\ (hookCall.op = "undo" /\ hookCall.acted /\ currentIndexRef = 0)
                 => ~rendered.canUndo)
    /\ [][(/\ \E newState \in NewStates : SetState(newState)
           /\ Len(historyRef) = hookOptions.maxHistorySize
           /\ currentIndexRef = Len(historyRef) - 1)
              => /\ historyRef' = Append(Tail(historyRef), rendered'.state)
                 /\ currentIndexRef' = currentIndexRef]_vars

\* maxHistorySize 3 and the states 0 to 4 set in order: undo stops at 2
UndoStopsAtOldestKept ==
    /\ hookOptions.maxHistorySize = 3
    /\ historyRef = <<Count(2), Count(3), Count(4)>>
    /\ currentIndexRef = 0
    /\ hookCall.op = "undo"
    /\ ~hookCall.acted
    /\ hookCall.prevOp = "undo"
    /\ hookCall.prevActed
    /\ rendered.state = Count(2)
    /\ ~rendered.canUndo

\* C25: after a setState the newest entry of the history is the current one
\* and canRedo is false, also where the setState follows an undo; a redo that
\* follows a setState does nothing and leaves the state as it is.
SetStateDropsRedo ==
    /\ hookCall.op = "setState"
           => /\ currentIndexRef = Len(historyRef) - 1
              /\ ~rendered.canRedo
    /\ (hookCall.op = "redo" /\ hookCall.prevOp = "setState")
           => /\ ~hookCall.acted
              /\ rendered.state = hookCall.from
              /\ ~rendered.canRedo

SetStateAfterUndo ==
    /\ hookCall.op = "setState"
    /\ hookCall.prevOp = "undo"
    /\ hookCall.prevActed
    /\ Len(historyRef) = 2
    /\ hookOptions.maxHistorySize = 3

\* C26: after reset(s) the state is s, the history is s alone, canUndo and
\* canRedo are false; an undo or a redo that follows does nothing.
ResetStartsOver ==
    /\ hookCall.op = "reset"
           => /\ rendered.state = hookCall.arg
              /\ historyRef = <<hookCall.arg>>
              /\ currentIndexRef = 0
              /\ ~rendered.canUndo
              /\ ~rendered.canRedo
    /\ (hookCall.op \in {"undo", "redo"} /\ hookCall.prevOp = "reset")
           => /\ ~hookCall.acted
              /\ rendered.state = hookCall.from
              /\ historyRef = <<hookCall.from>>

ResetAfterUndo ==
    /\ hookCall.op = "reset"
    /\ hookCall.prevOp = "undo"
    /\ hookCall.prevActed
    /\ hookCall.arg # hookCall.from
    /\ hookCall.arg # hookCall.prevFrom

\* C27: after clearHistory the state is the state it was called in, the
\* history is that state alone, and canUndo and canRedo are false.
ClearHistoryKeepsState ==
    hookCall.op = "clearHistory"
        => /\ rendered.state = hookCall.from
           /\ historyRef = <<rendered.state>>
           /\ currentIndexRef = 0
           /\ ~rendered.canUndo
           /\ ~rendered.canRedo

\* C28: before any call the state is the initial state and canUndo and
\* canRedo are false; an undo called while canUndo is false and a redo called
\* while canRedo is false change neither the state nor the history nor the
\* flags.
NoOpsAtTheEnds ==
    /\ [](hookCall.op = "none"
            => /\ rendered.state = InitialStateOf(hookOptions.kind)
               /\ ~rendered.canUndo
               /\ ~rendered.canRedo)
    /\ [][((Undo /\ ~rendered.canUndo) \/ (Redo /\ ~rendered.canRedo))
              => UNCHANGED <<rendered, historyRef, currentIndexRef>>]_vars

RedoAtNewest ==
    /\ hookCall.op = "redo"
    /\ ~hookCall.acted
    /\ hookCall.prevOp = "undo"
    /\ ~hookCall.prevActed
    /\ Len(historyRef) = 1

\* C29: where findAPI finds no API on the frame chain, initializeSCORM returns
\* false and calls nothing, the handle stays empty and the search is not run
\* again; every bridge function called afterwards returns false
\* (getSuspendData: null) and makes no call to the host.
NoAPINoHostCalls ==
    /\ []((pc # "start" /\ FoundAPI[frames] = NoAPI)
            => /\ scormAPI = NoAPI
               /\ last.op # "none"
               /\ last.calls = <<>>
               /\ last.ret = IF last.op = "getSuspendData" THEN JNull ELSE JFalse
               /\ ~lms.initialized
               /\ ~lms.terminated)
    /\ [][(pc # "start" /\ FoundAPI[frames] = NoAPI /\ last' # last)
              => last'.op # "initializeSCORM"]_vars

\* the API lies beyond the bound of the search, and the course is finished
FinishWithoutAPI ==
    /\ frames = Chain(maxAttempts + 2, {maxAttempts + 2})
    /\ last.op = "finishSCORM"
    /\ last.ret = JFalse
    /\ last.calls = <<>>

\* C30: a quiz submission on a found API writes the raw score, the minimum "0"
\* and the maximum "100" (and, in 2004, the scaled score, score/100 with two
\* decimals), then the status fields, and its last host call is the commit: no
\* write of the submission comes after it, and none is left without it when
\* the handler returns.
SubmissionCommitted ==
    (last.op = "submitQuiz" /\ scormAPI # NoAPI)
        => LET voc == Vocab(version)
               cs == last.calls
               n == Len(cs)
               score == last.arg.score
               scoreEnd == IF version = "1.2" THEN 3 ELSE 4
               hundredths == IF score < 10 THEN <<"0">> \o NumberToString(score)
                             ELSE NumberToString(score % 100)
           IN /\ n > scoreEnd + 1
              /\ \A i \in 1..(n - 1) : cs[i].fn = voc.set
              /\ cs[1].key = voc.scoreRaw /\ cs[1].val = NumberToString(score)
              /\ cs[2].key = voc.scoreMin /\ cs[2].val = <<"0">>
              /\ cs[3].key = voc.scoreMax /\ cs[3].val = <<"1", "0", "0">>
              /\ version = "2004"
                    => /\ cs[4].key = "cmi.score.scaled"
                       /\ cs[4].val = NumberToString(score \div 100) \o <<".">> \o hundredths
              /\ cs[scoreEnd + 1].key = voc.status
              /\ \A i \in (scoreEnd + 1)..(n - 1) :
                    cs[i].key \in {voc.status, "cmi.success_status"}
              /\ version = "2004"
                    => /\ cs[n - 1].key = "cmi.success_status"
                       /\ cs[n - 1].val = IF score >= last.arg.passingScore
                                          THEN "passed" ELSE "failed"
              /\ cs[n].fn = voc.commit
              /\ last.ret = JBool(cs[n].ret = "true")

PassedQuizSubmitted ==
    /\ version = "2004"
    /\ last.op = "submitQuiz"
    /\ last.arg.score = 70
    /\ Len(last.calls) = 7
    /\ last.calls[7].fn = "Commit"
    /\ last.ret = JTrue

PublishedAfterArchive ==
    /\ [](build.procedure = "generatePackage"
            => /\ build.pc = "failed" => project.status = build.statusBefore
               /\ build.pc \notin {"done", "idle"} => project.status = build.statusBefore
               /\ build.pc = "done"
                     => /\ project.status = "published"
                        /\ disk.archives = build.archivesBefore + 1)
    /\ [][project' # project
            => /\ build.pc = "publish"
               /\ disk.archives = build.archivesBefore + 1
               /\ project' = [project EXCEPT !.status = "published"]]_vars

ArchiveNotWritten ==
    /\ build.procedure = "generatePackage"
    /\ build.pc = "failed"
    /\ build.error = WriteError
    /\ build.templateRead
    /\ disk.exports
    /\ project.status = "ready"

\* C33: a setSuspendData on a found API that returns false, because the
\* bookmark is too long or because the host turned the write down, has
\* written a message to the console.
RejectedSaveLogged ==
    (last.op = "setSuspendData" /\ scormAPI # NoAPI /\ last.ret = JFalse)
        => last.log # <<>>

\* The name a primitive or a data-model element has in version v, as the
\* name of its column in the vocabulary.
RoleOf(v, name) ==
    LET voc == Vocab(v)
        roles == {f \in DOMAIN voc : voc[f] = name}
    IN IF roles = {} THEN "" ELSE CHOOSE f \in roles : TRUE

\* The status a host of version v returns where a 1.2 host returns `status`:
\* the default status is "not attempted" in 1.2 and "unknown" in 2004.
HostStatusIn(v, status) ==
    IF v = "1.2" THEN status
    ELSE IF status = Vocab("1.2").notSet THEN Vocab("2004").notSet
    ELSE IF status = Vocab("2004").notSet THEN Vocab("1.2").notSet
    ELSE status

\* The writes only the 2004 wrapper makes.
Only2004(c) == c.key \in {"cmi.score.scaled", "cmi.success_status"}

\* The host calls of a wrapper of version v without the 2004-only writes, in
\* the order made, each as: the primitive, the element, what the host
\* returned and, for bookmarks, scores and the first status, what was written
\* (the session time and the status of setCompletionStatus are written in the
\* version's own notation).
SharedCalls(v, op, cs) ==
    LET shared == SelectSeq(cs, LAMBDA c : ~Only2004(c))
    IN [i \in 1..Len(shared) |->
          LET c == shared[i]
              element == RoleOf(v, c.key)
          IN [primitive |-> RoleOf(v, c.fn),
              element |-> element,
              ret |-> IF element = "status" /\ RoleOf(v, c.fn) = "get"
                      THEN HostStatusIn(v, c.ret) ELSE c.ret,
              written |-> IF element = "sessionTime"
                             \/ (element = "status" /\ op = "setCompletionStatus")
                          THEN "" ELSE c.val]]

\* The 1.2 and the 2004 wrapper did the same.
SameFlow(op, e12, e2004) ==
    /\ e12.ret = e2004.ret
    /\ e12.timer = e2004.timer
    /\ Len(e12.log) = Len(e2004.log)
    /\ SelectSeq(e12.cs, LAMBDA c : Only2004(c)) = <<>>
    /\ SharedCalls("1.2", op, e12.cs) = SharedCalls("2004", op, e2004.cs)

BuildsKeepApart ==
    /\ \A r1 \in Requests, r2 \in Requests :
          (/\ r1 # r2
           /\ requests[r1].pc \in {"createPackage", "update", "done"}
           /\ requests[r2].pc \in {"createPackage", "update", "done"})
              => requests[r1].filename # requests[r2].filename
    /\ \A r \in Requests :
          requests[r].pc = "done"
              => \E a \in server.exports : a.path = requests[r].returned /\ a.by = r

\* C36: the worst case that generatePackage has checked, and the one that
\* validateSuspendData has measured, is a SuspendData whose l and t are
\* integers not below zero, whatever the project's lessons and questions.
WorstCaseWellFormed ==
    (\/ build.procedure = "generatePackage" /\ build.pc \notin {"idle", "validate"}
                                            /\ build.error # ProjectNotFound
     \/ build.procedure = "validateSuspendData" /\ build.pc = "done")
        => \A t \in BuildSeconds :
           LET worst == testSuspendData(build.lessons, build.quiz, t)
           IN /\ worst.p[1][1] = <<"l">> /\ worst.p[1][2].t = "num" /\ worst.p[1][2].n >= 0
              /\ worst.p[2][1] = <<"t">> /\ worst.p[2][2].t = "num" /\ worst.p[2][2].n >= 0
              /\ worst.p[3][1] = <<"q">> /\ worst.p[3][2].t = "obj"

\* C37: for the rows of one project and two times of day with as many digits,
\* generatePackage gets past its suspend-data validation exactly when
\* validateSuspendData answers isValid, the suspendDataSize a build returns
\* is the size validateSuspendData reports, and a validateSuspendData call
\* leaves the project row and the export directory as they were.
PreFlightAgreesWithBuild ==
    /\ [](/\ (build.procedure = "generatePackage" /\ build.pc \notin {"idle", "validate"}
                                                  /\ build.error # ProjectNotFound)
                => \A t \in BuildSeconds :
                      PreFlight[build.lessons, build.quiz, t].isValid
                          <=> ~Contains(build.error, <<"S", "u", "s", "p", "e", "n", "d">>)
          /\ (build.procedure = "generatePackage" /\ build.pc = "done")
                => \A t \in BuildSeconds :
                      PreFlight[build.lessons, build.quiz, t].size = build.result.size)
    /\ [][build'.procedure = "validateSuspendData" => project' = project /\ disk' = disk]_vars

\* A build of the largest course that fits, at the later time, has returned.
LargestCourseBuilt ==
    /\ build.procedure = "generatePackage"
    /\ build.pc = "done"
    /\ build.quiz = 379
    /\ build.seconds = EpochSeconds + SecondsApart
    /\ build.result.size = PreFlight[build.lessons, build.quiz, EpochSeconds].size

\* C38: in the package of one build, the threshold written into the manifest
\* and the passing score written into the player in place of PASSING_SCORE
\* are the same percentage: the 1.2 manifest's whole number, and a hundred
\* times the 2004 manifest's measure, equal the player's number.
ManifestThresholdIsPlayerPassingScore ==
    manifest # <<>> =>
        LET threshold == Substitutions(manifest)[4].chars
            injected == NumVal(PassingScorePlaceholder(scormConfig.passingScore))
        IN IF scormConfig.version = "1.2"
           THEN NumVal(threshold) = injected
           ELSE 100 * DigitValue(threshold[1]) + NumVal(SubSeq(threshold, 3, 4)) = injected

====
